---- MODULE Spec2Model ----
(***************************************************************************)
(* The off-chain hash matching of the block-hash guessing game: the two    *)
(* tokenizers, the token matchers, the block-distance indication and the   *)
(* complex-mode block derivation of the VerifyOffChain component variants. *)
(*                                                                         *)
(* A string is a sequence of one-character strings, so that slicing and    *)
(* prefix removal are computed on the characters as the code does.         *)
(***************************************************************************)
EXTENDS Integers, Sequences, FiniteSets, TLC

VARIABLES
    \* one call of a tokenizer (part_001:1008 and part_001:223)
    hexStr, size, fn, pc, i, tokens,
    \* the token matching of one verification (part_001:1277-1290, 335-345)
    actualHash, minedBlockHash, tokenSize, variant, fetchedTokens, foundTokens,
    \* the block-range indication of a mounted VerifyOffChain page
    page, complex, targetBlockCount, chainHeight, currentBlockNumber,
    blockRangeIndication,
    \* the rest of the state of a VerifyOffChain page, and what it asked of
    \* the chain and wrote to localStorage
    web3Instance, storedGuessData, fetchedBlockHash, targetBlockHash,
    matchResult, showMatchDetails, alertMessage, complexCalculation,
    showComplexCalculation, matchData, requestedBlocks, navigated,
    \* the steps the last verification went through, in the order it made them
    pipeline,
    \* a mounted VerifyOnChain page, the contract calls of its last
    \* verification and the last verifyBlockGuess transaction it sent
    onChainPage, isConnected, connectedAccount, matchedTokens, encodedMatchData,
    selectedMatches, verificationStatus, gasEstimate, showGasConfirmation,
    contractCalls, lastSent,
    \* a mounted GuessPage (a6Xk.tsx), the browser's localStorage, the contract
    \* calls of the last handleSubmit, the last token size asked for, and the
    \* last stored-guess lookup of another page
    guessId, registeredWallet, paidGuess, overwrite, hasActualHash,
    hasSecretHash, confirmModal, localStorage, submitCalls, requestedTokenSize,
    lookup,
    \* the block increment of the GuessPage form (a6Xk.tsx:139) and its
    \* submitting flag (a6Xk.tsx:151)
    blockIncrement, isSubmitting,
    \* the payment modal of the car booking page (part_000:16, part_003:367-369),
    \* the timers its Pay button has started and that have not fired yet, the
    \* number of times the modal was opened and Pay was clicked, the booking
    \* requests sent, and the payments that were under way when the modal
    \* was closed
    showPaymentModal, isProcessing, showSuccess, processingTimers,
    successTimers, modalOpenings, payClicks, bookingRequests, closedEarly,
    \* the guess ids whose off-chain verification has succeeded
    verifiedOffChain,
    \* how the last run of the load effect of part_001:930-965 ended
    loadOutcome

tokVars == <<hexStr, size, fn, pc, i, tokens>>
matchVars == <<actualHash, minedBlockHash, tokenSize, variant, fetchedTokens, foundTokens>>
rangeVars == <<page, complex, targetBlockCount, chainHeight, currentBlockNumber,
               blockRangeIndication>>
verifyVars == <<web3Instance, storedGuessData, fetchedBlockHash, targetBlockHash,
                matchResult, showMatchDetails, alertMessage, complexCalculation,
                showComplexCalculation, matchData, requestedBlocks, navigated,
                pipeline>>
onChainVars == <<onChainPage, isConnected, connectedAccount, matchedTokens,
                 encodedMatchData, selectedMatches, verificationStatus,
                 gasEstimate, showGasConfirmation, contractCalls, lastSent>>
\* the pages other than VerifyOffChain
guessVars == <<guessId, registeredWallet, paidGuess, overwrite, hasActualHash,
               hasSecretHash, confirmModal, localStorage, submitCalls,
               requestedTokenSize, lookup>>
formVars == <<blockIncrement, isSubmitting>>
paymentVars == <<showPaymentModal, isProcessing, showSuccess, processingTimers,
                 successTimers, modalOpenings, payClicks, bookingRequests,
                 closedEarly>>
proceedVars == <<verifiedOffChain>>
loadVars == <<loadOutcome>>
pagesVars == <<guessVars, formVars, paymentVars, proceedVars, loadVars>>
siteVars == <<onChainVars, pagesVars>>
vars == <<tokVars, matchVars, rangeVars, verifyVars, siteVars>>

(***************************************************************************)
(* Bounds of the model.                                                    *)
(***************************************************************************)
\* longest hash body (characters after an optional 0x)
MaxLen == 4
\* longest hash body in the two-hash matching specification
MaxMatchLen == 3

\* greatest chain height the model lets web3 report
MaxBlock == 810
\* the target block number of the stored guess in the indication specification
TargetBlock == 300

\* the loop of the chunked tokenizer is followed for at most this many pushes
MaxTokens == MaxLen + 3

HexChars == {"a", "b", "A"}
LowerHexChars == {"a", "b"}
Prefix0x == <<"0", "x">>

Bodies(chars, n) == UNION {[1..k -> chars] : k \in 0..n}

\* hashes as a user or localStorage supplies them: any case, 0x optional
Hashes(n) == Bodies(HexChars, n) \cup {Prefix0x \o b : b \in Bodies(HexChars, n)}
\* hashes as web3 returns them: 0x, lower case, not empty
BlockHashes(n) == {Prefix0x \o b : b \in Bodies(LowerHexChars, n) \ {<<>>}}

Sizes(n) == (0 - 2)..(n + 1)

Min(a, b) == IF a < b THEN a ELSE b
Max(a, b) == IF a > b THEN a ELSE b
Range(s) == {s[k] : k \in 1..Len(s)}

(***************************************************************************)
(* String primitives of JavaScript, on sequences of characters.            *)
(***************************************************************************)
\* String.prototype.slice(start, end): a negative index counts from the end
slice(s, start, end) ==
    LET from == IF start < 0 THEN Max(Len(s) + start, 0) ELSE Min(start, Len(s))
        to == IF end < 0 THEN Max(Len(s) + end, 0) ELSE Min(end, Len(s))
    IN  IF from >= to THEN <<>> ELSE SubSeq(s, from + 1, to)

\* String.prototype.substring(start, end): negatives are 0, the arguments are
\* swapped when start > end
substring(s, start, end) ==
    LET a == Max(0, Min(start, Len(s)))
        b == Max(0, Min(end, Len(s)))
    IN  SubSeq(s, Min(a, b) + 1, Max(a, b))

startsWith0x(s) == Len(s) >= 2 /\ s[1] = "0" /\ s[2] = "x"

toLowerCase(s) == [k \in 1..Len(s) |-> IF s[k] = "A" THEN "a" ELSE s[k]]

\* hexStr.startsWith("0x") ? hexStr.slice(2) : hexStr
removePrefix(s) == IF startsWith0x(s) THEN slice(s, 2, Len(s)) ELSE s

\* hash.replace(/^0x/, "")
replace0x(s) == IF startsWith0x(s) THEN SubSeq(s, 3, Len(s)) ELSE s

(***************************************************************************)
(* Sliding-window tokenize (part_001:1008-1014).                           *)
(***************************************************************************)
RECURSIVE tokenizeLoop(_, _, _, _)
tokenizeLoop(s, sz, k, acc) ==
    IF k <= Len(s) - sz
    THEN tokenizeLoop(s, sz, k + 1, Append(acc, slice(s, k, k + sz)))
    ELSE acc

\* the loop written with i < hexStr.length - size: the last window is lost
RECURSIVE tokenizeLoopShort(_, _, _, _)
tokenizeLoopShort(s, sz, k, acc) ==
    IF k < Len(s) - sz
    THEN tokenizeLoopShort(s, sz, k + 1, Append(acc, slice(s, k, k + sz)))
    ELSE acc

tokenizeShort(s, sz) == tokenizeLoopShort(s, sz, 0, <<>>)

tokenize(s, sz) == tokenizeLoop(s, sz, 0, <<>>)

(***************************************************************************)
(* Chunked tokenize (part_001:223-230), one loop iteration at a time.      *)
(***************************************************************************)
\* the loop condition i < cleanHash.length
chunkCond(cleanHash, k) == k < Len(cleanHash)
\* tokens.push(cleanHash.substring(i, i + size))
chunkPush(cleanHash, sz, k, acc) == Append(acc, substring(cleanHash, k, k + sz))
\* the step written as i += size + 1: a character is skipped between chunks
chunkAdvanceSkip(sz, k) == k + sz + 1

\* i += size
chunkAdvance(sz, k) == k + sz

RECURSIVE chunkLoop(_, _, _, _)
chunkLoop(cleanHash, sz, k, acc) ==
    IF chunkCond(cleanHash, k) /\ Len(acc) < MaxTokens
    THEN chunkLoop(cleanHash, sz, chunkAdvance(sz, k), chunkPush(cleanHash, sz, k, acc))
    ELSE acc

\* the whole call, for the sizes for which the loop ends
tokenizeChunked(hash, sz) == chunkLoop(replace0x(hash), sz, 0, <<>>)

(***************************************************************************)
(* Specification Spec: one hash, one size, the two tokenizers applied.     *)
(***************************************************************************)
TokIdle ==
    /\ hexStr = <<>> /\ size = 0 /\ fn = "none" /\ pc = "idle"
    /\ i = 0 /\ tokens = <<>>

MatchIdle ==
    /\ actualHash = <<>> /\ minedBlockHash = <<>> /\ tokenSize = 0
    /\ variant = "none" /\ fetchedTokens = <<>> /\ foundTokens = <<>>

RangeIdle ==
    /\ page = "none" /\ complex = FALSE /\ targetBlockCount = 0
    /\ chainHeight = 0 /\ currentBlockNumber = 0
    /\ blockRangeIndication = [blockDistance |-> 0, indication |-> "none", color |-> ""]

\* no guess loaded, no alert, nothing saved
NoGuess == [present |-> FALSE, tokens |-> <<>>, complex |-> FALSE]
NoAlert == [type |-> "none", message |-> ""]
\* the initial complexCalculation of taF9.tsx:92-99
NoComplexCalculation ==
    [targetBlockNumber |-> 0, targetBlockHash |-> <<>>, byteHex |-> <<>>,
     adjustedRanBlockPos |-> 0, randomBlockNumber |-> 0, randomBlockHash |-> <<>>]

VerifyIdle ==
    /\ web3Instance = FALSE /\ storedGuessData = NoGuess
    /\ fetchedBlockHash = <<>> /\ targetBlockHash = <<>>
    /\ matchResult = "null"
    /\ showMatchDetails = FALSE /\ alertMessage = NoAlert
    /\ complexCalculation = NoComplexCalculation
    /\ showComplexCalculation = FALSE
    /\ matchData = <<>> /\ requestedBlocks = {} /\ navigated = FALSE
    /\ pipeline = <<>>

\* no transaction sent, no gas estimate shown
NoTransaction == [sent |-> FALSE]
NoGasEstimate == [estimatedGas |-> 0]

OnChainIdle ==
    /\ onChainPage = "none" /\ isConnected = FALSE /\ connectedAccount = ""
    /\ matchedTokens = <<>> /\ encodedMatchData = <<>>
    /\ selectedMatches = <<>> /\ verificationStatus = "pending"
    /\ gasEstimate = NoGasEstimate /\ showGasConfirmation = FALSE
    /\ contractCalls = <<>> /\ lastSent = NoTransaction

\* what the confirmation modal of a6Xk.tsx:157-171 shows: nothing when it is
\* closed; no lookup made
NoModal == [isOpen |-> FALSE, title |-> "", type |-> "info", message |-> ""]
NoLookup == [by |-> "none"]

GuessIdle ==
    /\ guessId = 0 /\ registeredWallet = <<>>
    /\ paidGuess = FALSE /\ overwrite = FALSE
    /\ hasActualHash = FALSE /\ hasSecretHash = FALSE
    /\ confirmModal = NoModal /\ localStorage = <<>>
    /\ submitCalls = <<>> /\ requestedTokenSize = 0
    /\ lookup = NoLookup

\* no GuessPage form
FormIdle == blockIncrement = 0 /\ isSubmitting = FALSE

\* the car booking page before Book Now (part_000:16, part_003:367-369): no
\* modal, no timer, no request
PaymentIdle ==
    /\ showPaymentModal = FALSE /\ isProcessing = FALSE /\ showSuccess = FALSE
    /\ processingTimers = <<>> /\ successTimers = <<>>
    /\ modalOpenings = 0 /\ payClicks = 0
    /\ bookingRequests = <<>> /\ closedEarly = {}

ProceedIdle == verifiedOffChain = {}

\* the load effect has not run
NotRun == [ran |-> FALSE, error |-> ""]

LoadIdle == loadOutcome = NotRun

PagesIdle == GuessIdle /\ FormIdle /\ PaymentIdle /\ ProceedIdle /\ LoadIdle

SiteIdle == OnChainIdle /\ PagesIdle

Init ==
    /\ hexStr \in Hashes(MaxLen)
    /\ size \in Sizes(MaxLen)
    /\ fn = "none"
    /\ pc = "idle"
    /\ i = 0
    /\ tokens = <<>>
    /\ MatchIdle
    /\ RangeIdle
    /\ VerifyIdle
    /\ SiteIdle

\* tokenize(removePrefix(minedBlockHash), tokenSize), as handleFetchAndVerify
\* calls it (part_001:1278)
SlidingCall ==
    /\ pc # "loop"
    /\ fn' = "sliding"
    /\ tokens' = tokenize(removePrefix(hexStr), size)
    /\ i' = 0
    /\ pc' = "returned"
    /\ UNCHANGED <<hexStr, size, matchVars, rangeVars, verifyVars, siteVars>>

\* entry of the chunked tokenize: const tokens = []; let i = 0
ChunkedCall ==
    /\ pc # "loop"
    /\ fn' = "chunked"
    /\ tokens' = <<>>
    /\ i' = 0
    /\ pc' = "loop"
    /\ UNCHANGED <<hexStr, size, matchVars, rangeVars, verifyVars, siteVars>>

\* one iteration of the for loop
ChunkedIter ==
    /\ pc = "loop"
    /\ chunkCond(replace0x(hexStr), i)
    /\ Len(tokens) < MaxTokens
    /\ tokens' = chunkPush(replace0x(hexStr), size, i, tokens)
    /\ i' = chunkAdvance(size, i)
    /\ UNCHANGED <<hexStr, size, fn, pc, matchVars, rangeVars, verifyVars, siteVars>>

\* the loop condition fails: return tokens
ChunkedReturn ==
    /\ pc = "loop"
    /\ ~chunkCond(replace0x(hexStr), i)
    /\ pc' = "returned"
    /\ UNCHANGED <<hexStr, size, fn, i, tokens, matchVars, rangeVars, verifyVars, siteVars>>

Next == SlidingCall \/ ChunkedCall \/ ChunkedIter \/ ChunkedReturn

Spec == Init /\ [][Next]_vars

(***************************************************************************)
(* The matchers.  A JavaScript Set keeps insertion order, so it is a       *)
(* sequence without repetition.                                            *)
(***************************************************************************)
\* Set.prototype.add
setAdd(set, x) == IF x \in Range(set) THEN set ELSE Append(set, x)

\* for (i = 0; i <= cleanHash1.length - size; i++) userGuessTokens.add(...)
RECURSIVE userGuessTokensLoop(_, _, _, _)
userGuessTokensLoop(cleanHash1, sz, k, set) ==
    IF k <= Len(cleanHash1) - sz
    THEN userGuessTokensLoop(cleanHash1, sz, k + 1,
                             setAdd(set, substring(cleanHash1, k, k + sz)))
    ELSE set

\* for (i = 0; i <= cleanHash2.length - size; i++)
\*   if (userGuessTokens.has(fetchedToken)) foundMatches.add(fetchedToken)
RECURSIVE foundMatchesLoop(_, _, _, _, _)
foundMatchesLoop(cleanHash2, sz, userGuessTokens, k, set) ==
    IF k <= Len(cleanHash2) - sz
    THEN LET fetchedToken == substring(cleanHash2, k, k + sz)
         IN  foundMatchesLoop(cleanHash2, sz, userGuessTokens, k + 1,
                 IF fetchedToken \in Range(userGuessTokens)
                 THEN setAdd(set, fetchedToken) ELSE set)
    ELSE set

\* findMatchingTokens (part_001:1016-1040)
findMatchingTokens(hash1, hash2, sz) ==
    IF hash1 = <<>> \/ hash2 = <<>> \/ sz <= 0
    THEN <<>>
    ELSE LET cleanHash1 == removePrefix(toLowerCase(hash1))
             cleanHash2 == removePrefix(toLowerCase(hash2))
             userGuessTokens == userGuessTokensLoop(cleanHash1, sz, 0, <<>>)
         IN  foundMatchesLoop(cleanHash2, sz, userGuessTokens, 0, <<>>)

\* guessTokens.forEach((token, index) => { if (fetchedTokens.includes(token))
\*   matches.push(`${index}:${token}`) })     (part_001:340-345)
RECURSIVE matchesLoop(_, _, _, _)
matchesLoop(guessTokens, fetched, k, acc) ==
    IF k > Len(guessTokens)
    THEN acc
    ELSE matchesLoop(guessTokens, fetched, k + 1,
             IF guessTokens[k] \in Range(fetched)
             THEN Append(acc, [index |-> k - 1, token |-> guessTokens[k]])
             ELSE acc)

chunkMatches(hash1, hash2, sz) ==
    matchesLoop(tokenizeChunked(hash1, sz), tokenizeChunked(hash2, sz), 1, <<>>)

(***************************************************************************)
(* Specification SpecMatch: a guessed hash, a fetched block hash and a     *)
(* token size, matched by either component variant.                        *)
(***************************************************************************)
InitMatch ==
    /\ actualHash \in Hashes(MaxMatchLen)
    /\ minedBlockHash \in BlockHashes(MaxMatchLen)
    /\ tokenSize \in Sizes(MaxMatchLen)
    /\ variant = "none"
    /\ fetchedTokens = <<>>
    /\ foundTokens = <<>>
    /\ TokIdle
    /\ RangeIdle
    /\ VerifyIdle
    /\ SiteIdle

\* handleFetchAndVerify, from the fetched hash on (part_001:1277-1290)
FetchAndVerifyMatch ==
    /\ variant' = "sliding"
    /\ fetchedTokens' = tokenize(removePrefix(minedBlockHash), tokenSize)
    /\ foundTokens' = findMatchingTokens(actualHash, minedBlockHash, tokenSize)
    /\ UNCHANGED <<actualHash, minedBlockHash, tokenSize, tokVars, rangeVars, verifyVars, siteVars>>

\* fetchTargetBlockHash, from the fetched hash on (part_001:335-345); with a
\* size below 1 the tokenize loop does not end and the matching is not reached
FetchTargetMatch ==
    /\ tokenSize >= 1
    /\ variant' = "chunked"
    /\ fetchedTokens' = tokenizeChunked(minedBlockHash, tokenSize)
    /\ foundTokens' = chunkMatches(actualHash, minedBlockHash, tokenSize)
    /\ UNCHANGED <<actualHash, minedBlockHash, tokenSize, tokVars, rangeVars, verifyVars, siteVars>>

NextMatch == FetchAndVerifyMatch \/ FetchTargetMatch

SpecMatch == InitMatch /\ [][NextMatch]_vars

(***************************************************************************)
(* The block-range indication of the three VerifyOffChain variants.        *)
(***************************************************************************)
Abs(x) == IF x < 0 THEN 0 - x ELSE x

\* the first VerifyOffChain of part_001 (fetchTargetBlockHash), the second
\* (handleFetchAndVerify) and the one of taF9.tsx (handleVerify)
PageFetchTarget == "fetchTargetBlockHash"
PageFetchAndVerify == "handleFetchAndVerify"
PageHandleVerify == "handleVerify"

\* useState<BlockRangeIndication | null>(null)
NoIndication == [blockDistance |-> 0, indication |-> "none", color |-> ""]
\* the initial state of taF9.tsx:85-90
DefaultIndication == [blockDistance |-> 0, indication |-> "dark green", color |-> "#10b981"]

\* the first test written distance < 2
calculateBlockRangeIndicationStrict(distance) ==
    IF distance < 2
    THEN [blockDistance |-> distance, indication |-> "dark green", color |-> "#10b981"]
    ELSE IF distance <= 10
    THEN [blockDistance |-> distance, indication |-> "light green", color |-> "#34d399"]
    ELSE IF distance <= 256
    THEN [blockDistance |-> distance, indication |-> "light red", color |-> "#fb923c"]
    ELSE [blockDistance |-> distance, indication |-> "dark red", color |-> "#ef4444"]

\* calculateBlockRangeIndication (part_001:233-254)
calculateBlockRangeIndication(distance) ==
    IF distance <= 2
    THEN [blockDistance |-> distance, indication |-> "dark green", color |-> "#10b981"]
    ELSE IF distance <= 10
    THEN [blockDistance |-> distance, indication |-> "light green", color |-> "#34d399"]
    ELSE IF distance <= 256
    THEN [blockDistance |-> distance, indication |-> "light red", color |-> "#fb923c"]
    ELSE [blockDistance |-> distance, indication |-> "dark red", color |-> "#ef4444"]

\* const limits = isComplex ? [32, 64, 96] : [64, 128, 192]
limits(isComplex) == IF isComplex THEN <<32, 64, 96>> ELSE <<64, 128, 192>>

\* calculateBlockRangeIndication (part_001:1075-1098)
calculateBlockRangeIndication2(blockDistance, isComplex) ==
    IF blockDistance <= limits(isComplex)[1]
    THEN [blockDistance |-> blockDistance, indication |-> "dark green", color |-> "#10b981"]
    ELSE IF blockDistance <= limits(isComplex)[2]
    THEN [blockDistance |-> blockDistance, indication |-> "light green", color |-> "#34d399"]
    ELSE IF blockDistance <= limits(isComplex)[3]
    THEN [blockDistance |-> blockDistance, indication |-> "light red", color |-> "#f87171"]
    ELSE [blockDistance |-> blockDistance, indication |-> "dark red", color |-> "#dc2626"]

\* the block range effect of taF9.tsx:208-235; old is the indication kept when
\* the effect's condition fails
blockRangeEffect(target, current, old) ==
    IF target # 0 /\ current > 0
    THEN LET distance == target - current
         IN  IF distance > 0
             THEN IF distance > 100
                  THEN [blockDistance |-> distance, indication |-> "dark red", color |-> "#dc2626"]
                  ELSE [blockDistance |-> distance, indication |-> "light red", color |-> "#f87171"]
             ELSE IF Abs(distance) <= 100
                  THEN [blockDistance |-> distance, indication |-> "light green", color |-> "#4ade80"]
                  ELSE [blockDistance |-> distance, indication |-> "dark green", color |-> "#10b981"]
    ELSE old

(***************************************************************************)
(* Specification SpecRange: a page is mounted for a guess whose target     *)
(* block is TargetBlock; the chain grows and the page works out the        *)
(* indication from the height web3 reports.                                *)
(***************************************************************************)
\* the heights web3.eth.getBlockNumber() can report next
Heights == {b \in 1..MaxBlock : b >= chainHeight}

InitRange ==
    /\ page \in {PageFetchTarget, PageFetchAndVerify, PageHandleVerify}
    /\ complex \in BOOLEAN
    /\ targetBlockCount = TargetBlock
    /\ chainHeight = 0
    /\ currentBlockNumber = 0
    /\ blockRangeIndication =
          IF page = PageHandleVerify THEN DefaultIndication ELSE NoIndication
    /\ TokIdle
    /\ MatchIdle
    /\ VerifyIdle
    /\ SiteIdle

\* fetchTargetBlockHash up to setBlockRangeIndication (part_001:283-291)
RangeFetchTarget ==
    /\ page = PageFetchTarget
    /\ targetBlockCount # 0
    /\ \E currentBlock \in Heights :
          LET distanceToTarget == Abs(currentBlock - targetBlockCount)
          IN  /\ chainHeight' = currentBlock
              /\ currentBlockNumber' = currentBlock
              /\ blockRangeIndication' = calculateBlockRangeIndication(distanceToTarget)
    /\ UNCHANGED <<page, complex, targetBlockCount, tokVars, matchVars, verifyVars, siteVars>>

\* the heights web3 can report next, up to a greatest one
HeightsUpTo(last) == {b \in Heights : b <= last}

\* the greatest distance handleFetchAndVerify goes on with (part_001:1199,
\* part_001:1221)
maxDistance(isComplex) == IF isComplex THEN 128 ELSE 255

\* handleFetchAndVerify: the distance (part_001:1182-1193), the returns for a
\* distance out of range and the indication worked out from the distance
\* (part_001:1272-1274)
RangeFetchAndVerify ==
    /\ page = PageFetchAndVerify
    /\ targetBlockCount # 0
    /\ \E height \in HeightsUpTo(targetBlockCount + maxDistance(complex) + 1) :
          LET blockDistance == height - targetBlockCount
          IN  /\ chainHeight' = height
              /\ blockRangeIndication' =
                    IF blockDistance < 0 \/ blockDistance > maxDistance(complex)
                    THEN blockRangeIndication
                    ELSE calculateBlockRangeIndication2(blockDistance, complex)
    /\ UNCHANGED <<page, complex, targetBlockCount, currentBlockNumber, tokVars, matchVars, verifyVars, siteVars>>

\* fetchCurrentBlock (taF9.tsx:190-203) and the effect its state change runs
\* (taF9.tsx:208-235)
RangePoll ==
    /\ page = PageHandleVerify
    /\ \E blockNumber \in Heights :
          /\ chainHeight' = blockNumber
          /\ currentBlockNumber' = blockNumber
          /\ blockRangeIndication' =
                blockRangeEffect(targetBlockCount, blockNumber, blockRangeIndication)
    /\ UNCHANGED <<page, complex, targetBlockCount, tokVars, matchVars, verifyVars, siteVars>>

NextRange == RangeFetchTarget \/ RangeFetchAndVerify \/ RangePoll

SpecRange == InitRange /\ [][NextRange]_vars

(***************************************************************************)
(* The verification handlers: what they ask of the chain and what they     *)
(* make of the answer.                                                     *)
(***************************************************************************)
\* longest body of a block hash compared in the verification specification
MaxVerifyLen == 2

HexDigits == <<"0", "1", "2", "3", "4", "5", "6", "7", "8", "9",
               "a", "b", "c", "d", "e", "f">>

\* value of one hexadecimal digit
hexValue(c) == (CHOOSE k \in 1..16 : HexDigits[k] = c) - 1

\* parseInt(byteHex, 16) of a string of hexadecimal digits
RECURSIVE parseInt16(_)
parseInt16(str) ==
    IF str = <<>> THEN 0
    ELSE 16 * parseInt16(SubSeq(str, 1, Len(str) - 1)) + hexValue(str[Len(str)])

\* the first bytes the hash of the target block is given in the model
TargetBytes == {<<"0", "0">>, <<"6", "3">>, <<"8", "0">>, <<"f", "f">>}
TargetHashes == {Prefix0x \o b : b \in TargetBytes}

\* the heights web3 reports and the target blocks of stored guesses
ChainHeights == {30, 600}
VerifyHeights == {b \in ChainHeights : b >= chainHeight}
TargetBlocks == {0, 40, 256}

\* web3.eth.getBlock(n): a block with a hash, or none.  Only a block number
\* between 0 and the chain height names a block.
NotFound == [hash |-> <<>>]
getBlock(n, height, hashes) ==
    {NotFound} \cup (IF n >= 0 /\ n <= height THEN {[hash |-> h] : h \in hashes} ELSE {})

\* str.replace("0x", ""): the first occurrence goes, wherever it is
replaceFirst0x(str) ==
    LET at == {k \in 1..(Len(str) - 1) : str[k] = "0" /\ str[k + 1] = "x"}
    IN  IF at = {} THEN str
        ELSE LET k == CHOOSE x \in at : \A y \in at : x <= y
             IN  SubSeq(str, 1, k - 1) \o SubSeq(str, k + 2, Len(str))

\* str.match(new RegExp(`.{1,${n}}`, "g")) || []
RECURSIVE regexChunks(_, _)
regexChunks(str, n) ==
    IF str = <<>> THEN <<>>
    ELSE <<SubSeq(str, 1, Min(n, Len(str)))>>
            \o regexChunks(SubSeq(str, Min(n, Len(str)) + 1, Len(str)), n)

\* the fetched tokens of handleVerify (taF9.tsx:316-319)
fetchedTokensOf(finalBlockHash, userTokens, n) ==
    regexChunks(substring(replaceFirst0x(finalBlockHash), 0, n * Len(userTokens)), n)

\* the comparison of handleVerify (taF9.tsx:321-323)
isMatch(userTokens, fetched) ==
    /\ Len(userTokens) = Len(fetched)
    /\ \A k \in 1..Len(userTokens) : userTokens[k] = fetched[k]

\* the token lists a stored guess may carry (tokens may be missing or empty)
StoredTokens == {<<>>, <<<<"a">>>>, <<<<"a">>, <<"b">>>>, <<<<"a", "b">>>>}

(***************************************************************************)
(* handleVerify of taF9.tsx, as one step.                                  *)
(***************************************************************************)
hvFrame ==
    UNCHANGED <<tokVars, matchVars, rangeVars, web3Instance, storedGuessData,
                targetBlockHash, showComplexCalculation, navigated, siteVars>>

\* an early return: an alert and nothing else
hvReturn(type, message) ==
    /\ alertMessage' = [type |-> type, message |-> message]
    /\ pipeline' = <<>>
    /\ UNCHANGED <<fetchedBlockHash, matchResult, showMatchDetails,
                   complexCalculation, matchData, requestedBlocks>>

\* a throw inside the try block after the blocks in asked were requested
hvThrow(asked, steps, message) ==
    /\ alertMessage' = [type |-> "error", message |-> message]
    /\ requestedBlocks' = asked
    /\ pipeline' = steps
    /\ UNCHANGED <<fetchedBlockHash, matchResult, showMatchDetails,
                   complexCalculation, matchData>>

\* taF9.tsx:312-366: the comparison and what follows from it
hvCompare(asked, steps, finalBlockHash, finalBlockNumber, calculation) ==
    LET userTokens == storedGuessData.tokens
        fetched == fetchedTokensOf(finalBlockHash, userTokens, tokenSize)
        match == isMatch(userTokens, fetched)
    IN  /\ requestedBlocks' = asked
        /\ pipeline' = steps \o <<"TOKENIZE", "MATCH">>
        /\ complexCalculation' = calculation
        /\ fetchedBlockHash' = finalBlockHash
        /\ matchResult' = IF match THEN "true" ELSE "false"
        /\ showMatchDetails' = TRUE
        /\ IF match
           THEN /\ alertMessage' = [type |-> "success", message |-> "Verification successful"]
                /\ matchData' = <<[fetchedHash |-> finalBlockHash,
                                   tokenSize |-> tokenSize,
                                   targetBlockNumber |-> finalBlockNumber,
                                   blockDistance |-> blockRangeIndication.blockDistance,
                                   matchResult |-> TRUE,
                                   complex |-> storedGuessData.complex]>>
           ELSE /\ alertMessage' = [type |-> "error", message |-> "Verification failed"]
                /\ UNCHANGED matchData

\* taF9.tsx:273-301: the complex calculation
hvComplex ==
    \E targetBlock \in getBlock(targetBlockCount, chainHeight, TargetHashes) :
        IF targetBlock = NotFound
        THEN hvThrow({targetBlockCount}, <<"FETCH">>, "Target block not found")
        ELSE LET targetBlockHashStr == targetBlock.hash
                 byteHex == slice(targetBlockHashStr, 2, 4)
                 byteValue == parseInt16(byteHex)
                 ranBlockPos == (byteValue % 100) + 1
                 adjustedRanBlockPos == targetBlockCount - ranBlockPos
             IN  \E randomBlock \in getBlock(adjustedRanBlockPos, chainHeight,
                                             BlockHashes(MaxVerifyLen)) :
                     IF randomBlock = NotFound
                     THEN hvThrow({targetBlockCount, adjustedRanBlockPos},
                                  <<"FETCH", "DERIVE_OFFSET", "REFETCH">>,
                                  "Random block not found")
                     ELSE hvCompare({targetBlockCount, adjustedRanBlockPos},
                                    <<"FETCH", "DERIVE_OFFSET", "REFETCH">>,
                                    randomBlock.hash, adjustedRanBlockPos,
                                    [targetBlockNumber |-> targetBlockCount,
                                     targetBlockHash |-> targetBlockHashStr,
                                     byteHex |-> byteHex,
                                     adjustedRanBlockPos |-> adjustedRanBlockPos,
                                     randomBlockNumber |-> adjustedRanBlockPos,
                                     randomBlockHash |-> randomBlock.hash])

\* taF9.tsx:302-310: the simple verification
hvSimple ==
    \E block \in getBlock(targetBlockCount, chainHeight, BlockHashes(MaxVerifyLen)) :
        IF block = NotFound
        THEN hvThrow({targetBlockCount}, <<"FETCH">>, "Block not found")
        ELSE hvCompare({targetBlockCount}, <<"FETCH">>, block.hash, targetBlockCount,
                       complexCalculation)

\* handleVerify (taF9.tsx:237-376)
HandleVerify ==
    /\ page = PageHandleVerify
    /\ IF ~storedGuessData.present
       THEN hvReturn("error", "No guess data found to verify.")
       ELSE IF targetBlockCount = 0
       THEN hvReturn("error", "Target block number not available.")
       ELSE IF currentBlockNumber < targetBlockCount
       THEN hvReturn("warning", "Target block has not been mined yet.")
       ELSE IF storedGuessData.complex THEN hvComplex ELSE hvSimple
    /\ hvFrame

\* handleProceedToOnChain (taF9.tsx:378-382)
HandleProceedToOnChain ==
    /\ page = PageHandleVerify
    /\ matchResult = "true"
    /\ navigated' = TRUE
    /\ UNCHANGED <<tokVars, matchVars, rangeVars, web3Instance, storedGuessData,
                   fetchedBlockHash, targetBlockHash, matchResult,
                   showMatchDetails, alertMessage,
                   complexCalculation, showComplexCalculation, matchData,
                   requestedBlocks, pipeline, siteVars>>

\* fetchCurrentBlock and the block range effect, with the heights of this
\* specification (taF9.tsx:190-235)
VerifyPoll ==
    /\ page = PageHandleVerify
    /\ \E blockNumber \in VerifyHeights :
          /\ chainHeight' = blockNumber
          /\ currentBlockNumber' = blockNumber
          /\ blockRangeIndication' =
                blockRangeEffect(targetBlockCount, blockNumber, blockRangeIndication)
    /\ UNCHANGED <<page, complex, targetBlockCount, tokVars, matchVars, verifyVars, siteVars>>

(***************************************************************************)
(* fetchTargetBlockHash of the first VerifyOffChain of part_001, as one    *)
(* step.  The guess was loaded for a connected wallet (part_001:173-201),  *)
(* so the match data is saved whenever there are matches.                  *)
(***************************************************************************)
ftFrame ==
    UNCHANGED <<tokVars, page, complex, targetBlockCount, actualHash,
                minedBlockHash, tokenSize, variant, fetchedTokens, web3Instance,
                storedGuessData, fetchedBlockHash, matchResult, showMatchDetails,
                navigated, siteVars>>

\* an early return (part_001:258-274): an alert and nothing else
ftReturn(message) ==
    /\ alertMessage' = [type |-> "error", message |-> message]
    /\ pipeline' = <<>>
    /\ UNCHANGED <<chainHeight, currentBlockNumber, blockRangeIndication,
                   foundTokens, targetBlockHash, complexCalculation,
                   showComplexCalculation, matchData, requestedBlocks>>

\* getBlockNumber fails: the state is the one the resets left (part_001:277-280)
ftNoHeight ==
    /\ alertMessage' = [type |-> "error", message |-> "Failed to fetch block hash."]
    /\ foundTokens' = <<>>
    /\ blockRangeIndication' = NoIndication
    /\ complexCalculation' = NoComplexCalculation
    /\ showComplexCalculation' = FALSE
    /\ requestedBlocks' = {}
    /\ pipeline' = <<>>
    /\ UNCHANGED <<chainHeight, currentBlockNumber, targetBlockHash, matchData>>

\* a throw after the height was read and the blocks in asked were requested
ftThrow(currentBlock, showComplex, asked, steps, message) ==
    /\ alertMessage' = [type |-> "error", message |-> message]
    /\ foundTokens' = <<>>
    /\ chainHeight' = currentBlock
    /\ currentBlockNumber' = currentBlock
    /\ blockRangeIndication' =
          calculateBlockRangeIndication(Abs(currentBlock - targetBlockCount))
    /\ complexCalculation' = NoComplexCalculation
    /\ showComplexCalculation' = showComplex
    /\ requestedBlocks' = asked
    /\ pipeline' = steps
    /\ UNCHANGED <<targetBlockHash, matchData>>

\* part_001:333-379: the tokens, the matches and what is saved
ftMatch(currentBlock, showComplex, asked, steps, fetchedHash, calculation) ==
    LET distanceToTarget == Abs(currentBlock - targetBlockCount)
        matches == chunkMatches(actualHash, fetchedHash, tokenSize)
    IN  /\ chainHeight' = currentBlock
        /\ currentBlockNumber' = currentBlock
        /\ blockRangeIndication' = calculateBlockRangeIndication(distanceToTarget)
        /\ complexCalculation' = calculation
        /\ showComplexCalculation' = showComplex
        /\ requestedBlocks' = asked
        /\ pipeline' = steps \o <<"TOKENIZE", "MATCH">>
        /\ targetBlockHash' = fetchedHash
        /\ foundTokens' = tokenizeChunked(fetchedHash, tokenSize)
        /\ IF Len(matches) > 0
           THEN /\ matchData' = <<[targetBlockNumber |-> targetBlockCount,
                                   actualHash |-> actualHash,
                                   fetchedHash |-> fetchedHash,
                                   matchedTokens |-> matches,
                                   blockDistance |-> distanceToTarget,
                                   complex |-> complex,
                                   tokenSize |-> tokenSize]>>
                /\ alertMessage' = [type |-> "success", message |-> "Match Found!"]
           ELSE /\ alertMessage' = [type |-> "warning", message |-> "No Matches"]
                /\ UNCHANGED matchData

\* part_001:296-324: the complex calculation
ftComplex(currentBlock, targetHashes, blockHashes) ==
    \E targetBlock \in getBlock(targetBlockCount, currentBlock, targetHashes) :
        IF targetBlock = NotFound
        THEN ftThrow(currentBlock, TRUE, {targetBlockCount},
                     <<"CLASSIFY", "FETCH">>, "Target block not found")
        ELSE LET targetHash == targetBlock.hash
                 byteHex == slice(targetHash, 2, 4)
                 byteValue == parseInt16(byteHex)
                 adjustedPosition == byteValue % 256
                 randomBlockNumber == targetBlockCount - adjustedPosition
             IN  \E randomBlock \in getBlock(randomBlockNumber, currentBlock, blockHashes) :
                     IF randomBlock = NotFound
                     THEN ftThrow(currentBlock, TRUE,
                                  {targetBlockCount, randomBlockNumber},
                                  <<"CLASSIFY", "FETCH", "DERIVE_OFFSET", "REFETCH">>,
                                  "Random block not found")
                     ELSE ftMatch(currentBlock, TRUE,
                                  {targetBlockCount, randomBlockNumber},
                                  <<"CLASSIFY", "FETCH", "DERIVE_OFFSET", "REFETCH">>,
                                  randomBlock.hash,
                                  [targetBlockNumber |-> targetBlockCount,
                                   targetBlockHash |-> targetHash,
                                   byteHex |-> byteHex,
                                   adjustedRanBlockPos |-> adjustedPosition,
                                   randomBlockNumber |-> randomBlockNumber,
                                   randomBlockHash |-> randomBlock.hash])

\* part_001:325-331: the block of the target number itself
ftSimple(currentBlock, blockHashes) ==
    \E block \in getBlock(targetBlockCount, currentBlock, blockHashes) :
        IF block = NotFound
        THEN ftThrow(currentBlock, FALSE, {targetBlockCount},
                     <<"CLASSIFY", "FETCH">>, "Block not found")
        ELSE ftMatch(currentBlock, FALSE, {targetBlockCount},
                     <<"CLASSIFY", "FETCH">>, block.hash,
                     NoComplexCalculation)

\* fetchTargetBlockHash (part_001:257-392); heightKnown is whether
\* getBlockNumber answers
FetchTargetBlockHash ==
    /\ page = PageFetchTarget
    /\ tokenSize >= 1
    /\ IF ~web3Instance
       THEN ftReturn("Please wait for Web3 to initialize.")
       ELSE IF targetBlockCount = 0
       THEN ftReturn("Target block number is not set.")
       ELSE \E heightKnown \in BOOLEAN :
               IF ~heightKnown
               THEN ftNoHeight
               ELSE \E currentBlock \in VerifyHeights :
                       IF complex /\ Abs(currentBlock - targetBlockCount) > 256
                       THEN ftComplex(currentBlock, TargetHashes,
                                      BlockHashes(MaxVerifyLen))
                       ELSE ftSimple(currentBlock, BlockHashes(MaxVerifyLen))
    /\ ftFrame

(***************************************************************************)
(* Specification SpecVerify: a page is mounted with the guess it loaded,   *)
(* and the user verifies, any number of times, as the chain grows.         *)
(***************************************************************************)
\* data.tokenSize || 3, within the lengths of this specification
TokenSizes == {1, 2}

\* the guesses getStoredGuessData can return (taF9.tsx:102-166)
StoredGuesses ==
    [present : {TRUE}, tokens : StoredTokens, complex : BOOLEAN]

\* the state after the mount effects of taF9.tsx:169-186
InitHandleVerify ==
    /\ page = PageHandleVerify
    /\ storedGuessData \in {NoGuess} \cup StoredGuesses
    /\ IF storedGuessData.present
       THEN tokenSize \in TokenSizes /\ targetBlockCount \in TargetBlocks
       ELSE tokenSize = 0 /\ targetBlockCount = 0
    /\ alertMessage =
          IF storedGuessData.present THEN NoAlert
          ELSE [type |-> "warning", message |-> "No stored guess data found"]
    /\ blockRangeIndication = DefaultIndication
    /\ web3Instance = FALSE
    /\ complex = FALSE
    /\ actualHash = <<>>

\* the state after the mount effects of part_001:150-211
InitFetchTarget ==
    /\ page = PageFetchTarget
    /\ storedGuessData = NoGuess
    /\ web3Instance \in BOOLEAN
    /\ complex \in BOOLEAN
    /\ actualHash \in {Prefix0x \o b : b \in Bodies(LowerHexChars, MaxVerifyLen)}
    /\ tokenSize \in TokenSizes
    /\ targetBlockCount \in TargetBlocks
    /\ alertMessage = NoAlert
    /\ blockRangeIndication = NoIndication

InitVerify ==
    /\ InitHandleVerify \/ InitFetchTarget
    /\ chainHeight = 0
    /\ currentBlockNumber = 0
    /\ minedBlockHash = <<>> /\ variant = "none"
    /\ fetchedTokens = <<>> /\ foundTokens = <<>>
    /\ fetchedBlockHash = <<>> /\ targetBlockHash = <<>>
    /\ matchResult = "null" /\ showMatchDetails = FALSE
    /\ complexCalculation = NoComplexCalculation
    /\ showComplexCalculation = FALSE
    /\ matchData = <<>> /\ requestedBlocks = {} /\ navigated = FALSE
    /\ pipeline = <<>>
    /\ TokIdle
    /\ SiteIdle

NextVerify ==
    VerifyPoll \/ HandleVerify \/ HandleProceedToOnChain \/ FetchTargetBlockHash

SpecVerify == InitVerify /\ [][NextVerify]_vars

(***************************************************************************)
(* The VerifyOnChain pages: kHPk.tsx and part_003 (verifyOnChain) and      *)
(* 2J8a.tsx (handleVerifyClick, then executeVerification).                 *)
(***************************************************************************)
PageKHPk == "kHPk.tsx"
Page2J8a == "2J8a.tsx"
PagePart003 == "part_003"

\* the length of a formatted bytes32 value: 0x and 64 hexadecimal digits
FormattedLen == 66

\* String.prototype.trim, white space being " "
RECURSIVE trimStart(_)
trimStart(str) ==
    IF str # <<>> /\ str[1] = " " THEN trimStart(Tail(str)) ELSE str

RECURSIVE trimEnd(_)
trimEnd(str) ==
    IF str # <<>> /\ str[Len(str)] = " "
    THEN trimEnd(SubSeq(str, 1, Len(str) - 1))
    ELSE str

trim(str) == trimEnd(trimStart(str))

\* str.padEnd(n, '0'), and str + "0".repeat(n - str.length) for a shorter str
padEnd(str, n) ==
    IF Len(str) < n THEN str \o [k \in 1..(n - Len(str)) |-> "0"] ELSE str

\* str.startsWith("0x") ? str : `0x${str}`
with0x(str) == IF startsWith0x(str) THEN str ELSE Prefix0x \o str

\* a value ready for the contract, or the error thrown instead
Formatted(str) == [error |-> FALSE, value |-> str]
FormatError == [error |-> TRUE, value |-> <<>>]

\* actualHashFormatted (kHPk.tsx:241-244, 2J8a.tsx:273-279, part_003:866-876)
formatActualHash(onPage, hash) ==
    IF onPage = PageKHPk
    THEN IF Len(with0x(hash)) # FormattedLen
         THEN FormatError
         ELSE Formatted(with0x(hash))
    ELSE IF onPage = Page2J8a
    THEN Formatted(padEnd(with0x(trim(hash)), FormattedLen))
    ELSE IF Len(padEnd(with0x(trim(hash)), FormattedLen)) # FormattedLen
         THEN FormatError
         ELSE Formatted(padEnd(with0x(trim(hash)), FormattedLen))

\* secretKeyFormatted (kHPk.tsx:247-249, 2J8a.tsx:281-287, part_003:879-885)
formatSecretKey(onPage, key) ==
    IF onPage = PageKHPk
    THEN with0x(key)
    ELSE padEnd(with0x(trim(key)), FormattedLen)

\* encodedMatchFormatted (kHPk.tsx:253-260, 2J8a.tsx:289-295, part_003:888-894)
formatEncodedMatch(onPage, encoded) ==
    IF onPage = PageKHPk
    THEN padEnd(with0x(encoded), FormattedLen)
    ELSE padEnd(with0x(trim(encoded)), FormattedLen)

\* const encyDataArray = [encodedMatchFormatted, encodedMatchFormatted]
encyDataArray(onPage, encoded) ==
    <<formatEncodedMatch(onPage, encoded), formatEncodedMatch(onPage, encoded)>>

\* the phrases the handlers look for in an error message with includes()
Phrases(message) ==
    CASE message = "execution reverted: already verified" ->
            {"already verified", "execution reverted", "revert"}
      [] message = "execution reverted: invalid hash" ->
            {"invalid hash", "execution reverted", "revert"}
      [] message = "execution reverted" -> {"execution reverted", "revert"}
      [] message = "This guess has already been verified on-chain." ->
            {"already verified"}
      [] message = "Guess entry not found in contract." -> {"not found"}
      [] message = "User denied transaction signature" ->
            {"User denied transaction signature"}
      [] message = "Insufficient token balance. You need 25 tokens but have 10.00 tokens." ->
            {"Insufficient token balance"}
      [] message = "Logic contract not found. Please complete registration first." ->
            {"Logic contract"}
      [] message = "Token approval failed. Please try again." ->
            {"Token approval failed"}
      [] OTHER -> {}

includes(message, phrase) == phrase \in Phrases(message)

\* the errors a call of the contract can come back with
ContractErrors ==
    {"execution reverted: already verified", "execution reverted: invalid hash",
     "execution reverted"}

\* what getGuessEntry can answer: the entry of the guess, or an error
GuessEntries ==
    [error : {""}, targetBlockNumber : {40}, targetVerified : {0, 1}]
        \cup [error : {"", "execution reverted"}, targetBlockNumber : {0},
              targetVerified : {0}]

\* what estimateGas can answer: an estimate, or an error
GasEstimates ==
    [error : {""}, gas : {21000}] \cup [error : ContractErrors, gas : {0}]

\* how a sent transaction can end: a receipt with its status, or the user's
\* rejection (code 4001)
SendResults == {"receipt ok", "receipt failed", "rejected"}

\* the entries of contractCalls
GuessEntryCall(entry) == [method |-> "getGuessEntry", entry |-> entry]
VerifyCall(method, hash, key, ency) ==
    [method |-> method, actualHash |-> hash, secretKey |-> key, encyData |-> ency]

\* what a VerifyOnChain handler leaves alone
ocFrame ==
    UNCHANGED <<tokVars, matchVars, rangeVars, web3Instance, storedGuessData,
                fetchedBlockHash, targetBlockHash, matchResult, showMatchDetails,
                complexCalculation, showComplexCalculation, matchData,
                requestedBlocks, navigated, pipeline, onChainPage, isConnected,
                connectedAccount, matchedTokens, encodedMatchData, pagesVars>>

\* the verify button is enabled (kHPk.tsx:759, 2J8a.tsx:1020-1025,
\* part_003:1490)
verifyEnabled ==
    /\ Len(selectedMatches) # 0
    /\ verificationStatus # "success"

\* the updater of handleMatchSelection without its limit of two
handleMatchSelectionNoLimit(prev, token) ==
    IF token \in Range(prev)
    THEN SelectSeq(prev, LAMBDA t : t # token)
    ELSE Append(prev, token)

\* the updater handleMatchSelection passes to setSelectedMatches
\* (kHPk.tsx:183-196, 2J8a.tsx:215-229, part_003:808-822)
handleMatchSelection(prev, token) ==
    IF token \in Range(prev)
    THEN SelectSeq(prev, LAMBDA t : t # token)
    ELSE IF Len(prev) >= 2
    THEN prev
    ELSE Append(prev, token)

\* handleMatchSelection (kHPk.tsx:181-197, 2J8a.tsx:214-230, part_003:807-823);
\* the gas confirmation of 2J8a.tsx:753-758 covers the page while it is shown
HandleMatchSelection ==
    /\ onChainPage # "none"
    /\ ~showGasConfirmation
    /\ \E token \in Range(matchedTokens) :
          /\ selectedMatches' = handleMatchSelection(selectedMatches, token)
          /\ IF token \notin Range(selectedMatches) /\ Len(selectedMatches) >= 2
             THEN alertMessage' = [type |-> "warning", message |-> "Maximum Selection"]
             ELSE UNCHANGED alertMessage
    /\ UNCHANGED <<verificationStatus, gasEstimate, showGasConfirmation,
                   contractCalls, lastSent>>
    /\ ocFrame

\* the alert of the first guard that returns (kHPk.tsx:201-219,
\* 2J8a.tsx:234-252, part_003:827-845), NoAlert when none does
ocGuard ==
    IF ~isConnected \/ connectedAccount = ""
    THEN [type |-> "error", message |-> "Wallet Not Connected"]
    ELSE IF Len(selectedMatches) = 0
    THEN [type |-> "warning", message |-> "No Matches Selected"]
    ELSE IF ~web3Instance
    THEN [type |-> "error", message |-> "Web3 Error"]
    ELSE IF ~storedGuessData.present
    THEN [type |-> "error", message |-> "Missing Data"]
    ELSE NoAlert

\* an early return: an alert, and no call of the contract
ocReturn ==
    /\ alertMessage' = ocGuard
    /\ contractCalls' = <<>>
    /\ UNCHANGED <<selectedMatches, verificationStatus, gasEstimate,
                   showGasConfirmation, lastSent>>

\* handleTransactionError (kHPk.tsx:432-470, 2J8a.tsx:545-600) after the calls
\* made so far
ocFail(calls, type, message) ==
    /\ verificationStatus' = "failed"
    /\ alertMessage' = [type |-> type, message |-> message]
    /\ contractCalls' = calls
    /\ UNCHANGED <<selectedMatches, gasEstimate, showGasConfirmation, lastSent>>

\* the transaction as the wallet got it
Transaction(hash, key, ency) ==
    [sent |-> TRUE, actualHash |-> hash, secretKey |-> key, encyData |-> ency,
     selectedMatches |-> selectedMatches]

\* verifyBlockGuess(...).send(...) and its receipt or error
ocSend(calls, hash, key, ency) ==
    \E result \in SendResults :
        /\ contractCalls' = Append(calls, VerifyCall("send", hash, key, ency))
        /\ lastSent' = IF result = "rejected" THEN lastSent
                       ELSE Transaction(hash, key, ency)
        /\ verificationStatus' = IF result = "receipt ok" THEN "success" ELSE "failed"
        /\ alertMessage' =
              CASE result = "receipt ok" ->
                      [type |-> "success", message |-> "Verification Successful!"]
                [] result = "receipt failed" ->
                      [type |-> "error", message |-> "Transaction Failed"]
                [] result = "rejected" ->
                      [type |-> "warning", message |-> "Transaction Rejected"]
        /\ UNCHANGED <<selectedMatches, gasEstimate>>

\* the error of the contract state check, "" when the entry passes it
\* (kHPk.tsx:276-292, part_003:909-945)
entryError(entry) ==
    IF entry.error # "" THEN entry.error
    ELSE IF entry.targetBlockNumber = 0 THEN "Guess entry not found in contract."
    ELSE IF entry.targetVerified # 0
    THEN "This guess has already been verified on-chain."
    ELSE ""

\* the catch of the contract state check rethrows (kHPk.tsx:293-299,
\* part_003:947-971)
entryRethrown(onPage, message) ==
    IF onPage = PageKHPk
    THEN message # "" /\ ~includes(message, "already verified")
    ELSE message # ""

\* the catch of the gas estimation throws (kHPk.tsx:321-333,
\* part_003:1009-1013)
estimateRethrown(onPage, message) ==
    IF onPage = PageKHPk
    THEN \/ includes(message, "guess not found")
         \/ includes(message, "already verified")
         \/ includes(message, "invalid hash")
         \/ includes(message, "target block not reached")
    ELSE \/ includes(message, "target block not reached")
         \/ includes(message, "invalid hash")

\* verifyOnChain of kHPk.tsx (198-428) and of part_003 (825-1100), from the
\* try block on
ocVerify(onPage) ==
    \E logicCrtAddress \in {"", "0xL"} :
        IF logicCrtAddress = ""
        THEN ocFail(<<>>, "error", "Logic contract address not found")
        ELSE IF formatActualHash(onPage, actualHash).error
        THEN ocFail(<<>>, "error", "Invalid actualHash length")
        ELSE LET hash == formatActualHash(onPage, actualHash).value
                 key == formatSecretKey(onPage, storedGuessData.secretKey)
                 ency == encyDataArray(onPage, encodedMatchData)
             IN  \E entry \in GuessEntries :
                    IF entryRethrown(onPage, entryError(entry))
                    THEN ocFail(<<GuessEntryCall(entry)>>, "error", entryError(entry))
                    ELSE \E estimate \in GasEstimates :
                            LET calls == <<GuessEntryCall(entry),
                                           VerifyCall("estimateGas", hash, key, ency)>>
                            IN  IF estimate.error # ""
                                    /\ estimateRethrown(onPage, estimate.error)
                                THEN ocFail(calls, "error", estimate.error)
                                ELSE /\ ocSend(calls, hash, key, ency)
                                     /\ UNCHANGED showGasConfirmation

\* verifyOnChain (kHPk.tsx:198-428)
VerifyOnChainKHPk ==
    /\ onChainPage = PageKHPk
    /\ verifyEnabled
    /\ IF ocGuard # NoAlert THEN ocReturn ELSE ocVerify(PageKHPk)
    /\ ocFrame

\* verifyOnChain (part_003:825-1100)
VerifyOnChainPart003 ==
    /\ onChainPage = PagePart003
    /\ verifyEnabled
    /\ IF ocGuard # NoAlert THEN ocReturn ELSE ocVerify(PagePart003)
    /\ ocFrame

\* the catch of the gas estimation of handleVerifyClick throws
\* (2J8a.tsx:322-344)
clickRethrown(message) ==
    \/ includes(message, "target block not reached")
    \/ includes(message, "already verified")
    \/ includes(message, "invalid hash")
    \/ includes(message, "not found")
    \/ includes(message, "insufficient funds")

\* the catch of handleVerifyClick (2J8a.tsx:383-386): an alert, the status kept
clickFail(calls, message) ==
    /\ alertMessage' = [type |-> "error", message |-> message]
    /\ contractCalls' = calls
    /\ UNCHANGED <<selectedMatches, verificationStatus, gasEstimate,
                   showGasConfirmation, lastSent>>

\* Math.floor(Number(gasEstimated) * 1.3)
adjustedGas(gas) == (gas * 13) \div 10

\* handleVerifyClick (2J8a.tsx:233-399)
HandleVerifyClick ==
    /\ onChainPage = Page2J8a
    /\ verifyEnabled
    /\ ~showGasConfirmation
    /\ IF ocGuard # NoAlert
       THEN ocReturn
       ELSE \E logicCrtAddress \in {"", "0xL"} :
               IF logicCrtAddress = ""
               THEN clickFail(<<>>, "Logic contract address not found")
               ELSE LET hash == formatActualHash(Page2J8a, actualHash).value
                        key == formatSecretKey(Page2J8a, storedGuessData.secretKey)
                        ency == encyDataArray(Page2J8a, encodedMatchData)
                        calls == <<VerifyCall("estimateGas", hash, key, ency)>>
                    IN  \E estimate \in GasEstimates, enoughBalance \in BOOLEAN :
                           IF estimate.error # "" /\ clickRethrown(estimate.error)
                           THEN clickFail(calls, estimate.error)
                           ELSE IF ~enoughBalance
                           THEN clickFail(calls, "Insufficient MATIC!")
                           ELSE /\ gasEstimate' =
                                      [estimatedGas |->
                                          adjustedGas(IF estimate.error = ""
                                                      THEN estimate.gas ELSE 500000)]
                                /\ showGasConfirmation' = TRUE
                                /\ contractCalls' = calls
                                /\ UNCHANGED <<selectedMatches, verificationStatus,
                                               alertMessage, lastSent>>
    /\ ocFrame

\* executeVerification (2J8a.tsx:402-481), offered by the gas confirmation
\* (2J8a.tsx:753), with handleTransactionSuccess and handleTransactionError
ExecuteVerification ==
    /\ onChainPage = Page2J8a
    /\ showGasConfirmation
    /\ showGasConfirmation' = FALSE
    /\ ocSend(contractCalls,
              formatActualHash(Page2J8a, actualHash).value,
              formatSecretKey(Page2J8a, storedGuessData.secretKey),
              encyDataArray(Page2J8a, encodedMatchData))
    /\ ocFrame

(***************************************************************************)
(* Specification SpecOnChain: a VerifyOnChain page is mounted with the     *)
(* match data it was given; the user selects matches and verifies.         *)
(***************************************************************************)
\* a string of n characters c
Fill(c, n) == [k \in 1..n |-> c]

\* the actual hashes the page can be given: 63 and 64 hexadecimal digits, 64
\* and 65 digits after 0x, and 64 digits followed by a space
ActualHashes ==
    {Fill("a", FormattedLen - 3), Fill("a", FormattedLen - 2),
     Prefix0x \o Fill("a", FormattedLen - 2),
     Prefix0x \o Fill("a", FormattedLen - 1),
     Fill("a", FormattedLen - 2) \o <<" ">>}

\* the matched tokens of the off-chain verification
MatchedTokens == <<"aaa", "aab", "abb">>

\* the encoded match of the off-chain verification, one 32-byte word of it
EncodedMatches == {Prefix0x \o Fill("0", FormattedLen - 2)}

\* the guards of the handlers: all pass, or one of them fails
OnChainPreconditions ==
    {<<TRUE, "0xW", TRUE, TRUE>>, <<FALSE, "", TRUE, TRUE>>,
     <<TRUE, "0xW", FALSE, TRUE>>, <<TRUE, "0xW", TRUE, FALSE>>}

\* the state after the mount effects (kHPk.tsx:119-179, 2J8a.tsx:107-178,
\* part_003:745-805)
InitOnChain ==
    /\ onChainPage \in {PageKHPk, Page2J8a, PagePart003}
    /\ \E pre \in OnChainPreconditions :
          /\ isConnected = pre[1]
          /\ connectedAccount = pre[2]
          /\ web3Instance = pre[3]
          /\ storedGuessData =
                IF pre[4]
                THEN [present |-> TRUE, secretKey |-> <<"a", "b">>]
                ELSE NoGuess
    /\ actualHash \in ActualHashes
    /\ matchedTokens \in {<<>>, MatchedTokens}
    /\ encodedMatchData \in EncodedMatches
    /\ selectedMatches = SubSeq(matchedTokens, 1, Min(2, Len(matchedTokens)))
    /\ verificationStatus = "pending"
    /\ gasEstimate = NoGasEstimate
    /\ showGasConfirmation = FALSE
    /\ contractCalls = <<>>
    /\ lastSent = NoTransaction
    /\ alertMessage = NoAlert
    /\ minedBlockHash = <<>> /\ tokenSize = 0 /\ variant = "none"
    /\ fetchedTokens = <<>> /\ foundTokens = <<>>
    /\ fetchedBlockHash = <<>> /\ targetBlockHash = <<>>
    /\ matchResult = "null" /\ showMatchDetails = FALSE
    /\ complexCalculation = NoComplexCalculation
    /\ showComplexCalculation = FALSE
    /\ matchData = <<>> /\ requestedBlocks = {} /\ navigated = FALSE
    /\ pipeline = <<>>
    /\ TokIdle
    /\ RangeIdle
    /\ PagesIdle

NextOnChain ==
    \/ HandleMatchSelection
    \/ VerifyOnChainKHPk
    \/ VerifyOnChainPart003
    \/ HandleVerifyClick
    \/ ExecuteVerification

SpecOnChain == InitOnChain /\ [][NextOnChain]_vars

(***************************************************************************)
(* The GuessPage (a6Xk.tsx), the browser's localStorage, and the           *)
(* stored-guess lookups of the off-chain verification page (taF9.tsx) and  *)
(* of the dashboard ring (9IaY.tsx).                                       *)
(***************************************************************************)
\* no wallet, and the wallet "0x0"
NoWallet == <<>>
ZeroWallet == <<"0", "x", "0">>

\* getWalletStorageKey of a6Xk.tsx:80-82: `${walletAddress.toLowerCase()}_${key}`
guessPageStorageKey(walletAddress, key) == toLowerCase(walletAddress) \o <<"_", key>>

\* getWalletStorageKey of taF9.tsx:22-27 and 9IaY.tsx:13-18:
\* `${baseKey}_${walletAddress.toLowerCase()}`, the bare key without a wallet
getWalletStorageKey(baseKey, walletAddress) ==
    IF walletAddress = NoWallet \/ walletAddress = ZeroWallet
    THEN <<baseKey>>
    ELSE <<baseKey, "_">> \o toLowerCase(walletAddress)

\* the per-id key `guesses/${currentWallet}/${guessId}` (taF9.tsx:130,
\* 9IaY.tsx:165)
perIdStorageKey(walletAddress, id) == <<"guesses/">> \o walletAddress \o <<"/", ToString(id)>>

Wallets == {<<"0", "x", "A", "b">>}
GuessIds == {1, 2}
BaseKeys == {"allGuessSubmissions", "lastGuessSubmission"}

\* every key the pages read or write
StorageKeys ==
    {<<key>> : key \in BaseKeys}
        \cup {guessPageStorageKey(w, key) : w \in Wallets, key \in BaseKeys}
        \cup {getWalletStorageKey(key, w) : w \in Wallets, key \in BaseKeys}
        \cup {perIdStorageKey(w, id) : w \in Wallets, id \in GuessIds}

\* a stored item is the list of guesses it holds; no item is the empty list
EmptyStorage == [key \in StorageKeys |-> <<>>]

\* the guess handleSubmit stores (a6Xk.tsx:637-655)
ExportableGuessData(id, tokenSizeOfGuess) ==
    [Sno |-> id, guessId |-> id, tokenSize |-> tokenSizeOfGuess]

\* null
NoStoredGuess == [Sno |-> 0, guessId |-> 0, tokenSize |-> 0]

\* list.find((x) => Number(x.Sno || x.guessId) === guessId)
findGuess(list, id) ==
    LET hits == SelectSeq(list, LAMBDA x : (IF x.Sno # 0 THEN x.Sno ELSE x.guessId) = id)
    IN  IF hits = <<>> THEN NoStoredGuess ELSE hits[1]

\* the legacy, un-scoped keys (taF9.tsx:137-157, 9IaY.tsx:175-201)
legacyGuess(storage, id) ==
    IF findGuess(storage[<<"allGuessSubmissions">>], id) # NoStoredGuess
    THEN findGuess(storage[<<"allGuessSubmissions">>], id)
    ELSE findGuess(storage[<<"lastGuessSubmission">>], id)

\* getStoredGuessData (taF9.tsx:102-166)
getStoredGuessData(storage, currentWallet, id) ==
    LET aggKey == getWalletStorageKey("allGuessSubmissions", currentWallet)
        lastKey == getWalletStorageKey("lastGuessSubmission", currentWallet)
    IN  IF findGuess(storage[aggKey], id) # NoStoredGuess
        THEN findGuess(storage[aggKey], id)
        ELSE IF currentWallet # NoWallet /\ findGuess(storage[lastKey], id) # NoStoredGuess
        THEN findGuess(storage[lastKey], id)
        ELSE IF currentWallet # NoWallet /\ storage[perIdStorageKey(currentWallet, id)] # <<>>
        THEN storage[perIdStorageKey(currentWallet, id)][1]
        ELSE legacyGuess(storage, id)

\* toHashDetails (9IaY.tsx:110-125)
toHashDetails(d) ==
    IF d = NoStoredGuess THEN [found |-> FALSE, tokenSizes |-> 0]
    ELSE [found |-> TRUE, tokenSizes |-> d.tokenSize]

\* readSingleGuess (9IaY.tsx:135-206): the same keys in the same order
readSingleGuess(storage, currentWallet, id) ==
    toHashDetails(getStoredGuessData(storage, currentWallet, id))

\* the frame of the actions of the GuessPage specification
gsFrame ==
    UNCHANGED <<tokVars, actualHash, minedBlockHash, variant, fetchedTokens,
                foundTokens, rangeVars, verifyVars, onChainVars, guessId,
                registeredWallet, paymentVars, proceedVars, loadVars>>

\* migrateOldDataToWalletSpecific without its test of alreadyMigrated
migrateOldDataUnguarded(storage, walletAddress) ==
    LET oldAllGuesses == storage[<<"allGuessSubmissions">>]
        oldLastGuess == storage[<<"lastGuessSubmission">>]
        walletKey == guessPageStorageKey(walletAddress, "allGuessSubmissions")
        lastKey == guessPageStorageKey(walletAddress, "lastGuessSubmission")
    IN  IF oldAllGuesses # <<>>
        THEN [storage EXCEPT
                 ![walletKey] = oldAllGuesses,
                 ![lastKey] = IF oldLastGuess # <<>> THEN oldLastGuess ELSE @]
        ELSE storage

\* migrateOldDataToWalletSpecific (a6Xk.tsx:96-127): the storage it leaves
migrateOldDataToWalletSpecific(storage, walletAddress) ==
    LET oldAllGuesses == storage[<<"allGuessSubmissions">>]
        oldLastGuess == storage[<<"lastGuessSubmission">>]
        walletKey == guessPageStorageKey(walletAddress, "allGuessSubmissions")
        alreadyMigrated == storage[walletKey]
        lastKey == guessPageStorageKey(walletAddress, "lastGuessSubmission")
    IN  IF oldAllGuesses # <<>> /\ alreadyMigrated = <<>>
        THEN [storage EXCEPT
                 ![walletKey] = oldAllGuesses,
                 ![lastKey] = IF oldLastGuess # <<>> THEN oldLastGuess ELSE @]
        ELSE storage

\* migrateOldDataToWalletSpecific of the off-chain verification page
\* (part_001:94-110): the list of guesses only
migrateOldDataPart001(storage, walletAddress) ==
    LET oldAllGuesses == storage[<<"allGuessSubmissions">>]
        walletKey == guessPageStorageKey(walletAddress, "allGuessSubmissions")
        alreadyMigrated == storage[walletKey]
    IN  IF oldAllGuesses # <<>> /\ alreadyMigrated = <<>>
        THEN [storage EXCEPT ![walletKey] = oldAllGuesses]
        ELSE storage

\* the mount effect of the off-chain verification page (part_001:144-148)
MigrateOldDataPart001 ==
    /\ registeredWallet # NoWallet /\ registeredWallet # ZeroWallet
    /\ localStorage' = migrateOldDataPart001(localStorage, registeredWallet)
    /\ UNCHANGED <<tokenSize, paidGuess, overwrite, hasActualHash, hasSecretHash,
                   confirmModal, submitCalls, requestedTokenSize, lookup>>
    /\ UNCHANGED formVars
    /\ gsFrame

\* the mount effect of GuessPage (a6Xk.tsx:174-178)
MigrateOldData ==
    /\ registeredWallet # NoWallet /\ registeredWallet # ZeroWallet
    /\ localStorage' = migrateOldDataToWalletSpecific(localStorage, registeredWallet)
    /\ UNCHANGED <<tokenSize, paidGuess, overwrite, hasActualHash, hasSecretHash,
                   confirmModal, submitCalls, requestedTokenSize, lookup>>
    /\ UNCHANGED formVars
    /\ gsFrame

\* the values a token size field can ask for
TokenSizeInputs == {2, 3, 64, 65}

\* handleTokenSizeChange without its range test
HandleTokenSizeChangeUnchecked ==
    /\ guessId # 0
    /\ \E value \in TokenSizeInputs :
          /\ requestedTokenSize' = value
          /\ tokenSize' = value
    /\ UNCHANGED <<paidGuess, overwrite, hasActualHash, hasSecretHash,
                   confirmModal, localStorage, submitCalls, lookup>>
    /\ UNCHANGED formVars
    /\ gsFrame

\* handleTokenSizeChange (a6Xk.tsx:299-303)
HandleTokenSizeChange ==
    /\ guessId # 0
    /\ \E value \in TokenSizeInputs :
          /\ requestedTokenSize' = value
          /\ tokenSize' = IF value >= 3 /\ value <= 64 THEN value ELSE tokenSize
    /\ UNCHANGED <<paidGuess, overwrite, hasActualHash, hasSecretHash,
                   confirmModal, localStorage, submitCalls, lookup>>
    /\ UNCHANGED formVars
    /\ gsFrame

\* handlePaidGuessChange (a6Xk.tsx:243-260) and the answer to its confirmation
HandlePaidGuessChange ==
    /\ guessId # 0
    /\ \E value \in BOOLEAN, confirmed \in BOOLEAN :
          /\ paidGuess' = IF confirmed THEN value ELSE paidGuess
          /\ confirmModal' = NoModal
    /\ UNCHANGED <<tokenSize, overwrite, hasActualHash, hasSecretHash,
                   localStorage, submitCalls, requestedTokenSize, lookup>>
    /\ UNCHANGED formVars
    /\ gsFrame

\* handleOverwriteChange (a6Xk.tsx:262-287) and the answer to its confirmation
HandleOverwriteChange ==
    /\ guessId # 0
    /\ \E value \in BOOLEAN, confirmed \in BOOLEAN :
          IF value /\ registeredWallet # NoWallet /\ registeredWallet # ZeroWallet
          THEN /\ overwrite' = IF confirmed THEN TRUE ELSE overwrite
               /\ confirmModal' = NoModal
          ELSE /\ overwrite' = value
               /\ UNCHANGED confirmModal
    /\ UNCHANGED <<tokenSize, paidGuess, hasActualHash, hasSecretHash,
                   localStorage, submitCalls, requestedTokenSize, lookup>>
    /\ UNCHANGED formVars
    /\ gsFrame

\* handleGenerateActualHash (a6Xk.tsx:313-329)
HandleGenerateActualHash ==
    /\ guessId # 0
    /\ hasActualHash' = TRUE
    /\ UNCHANGED <<tokenSize, paidGuess, overwrite, hasSecretHash, confirmModal,
                   localStorage, submitCalls, requestedTokenSize, lookup>>
    /\ UNCHANGED formVars
    /\ gsFrame

\* handleGenerateSecretHash (a6Xk.tsx:331-347)
HandleGenerateSecretHash ==
    /\ guessId # 0
    /\ hasSecretHash' = TRUE
    /\ UNCHANGED <<tokenSize, paidGuess, overwrite, hasActualHash, confirmModal,
                   localStorage, submitCalls, requestedTokenSize, lookup>>
    /\ UNCHANGED formVars
    /\ gsFrame

\* handleClear (a6Xk.tsx:752-775), confirmed
HandleClear ==
    /\ guessId # 0
    /\ paidGuess' = FALSE
    /\ overwrite' = FALSE
    /\ hasActualHash' = FALSE
    /\ hasSecretHash' = FALSE
    /\ tokenSize' = 3
    /\ blockIncrement' = 10
    /\ confirmModal' = NoModal
    /\ UNCHANGED <<localStorage, submitCalls, requestedTokenSize, lookup,
                   isSubmitting>>
    /\ gsFrame

\* the values a block increment field can ask for
BlockIncrementInputs == {9, 10, 2048, 2049}

\* handleBlockIncrementChange (a6Xk.tsx:293-297)
HandleBlockIncrementChange ==
    /\ guessId # 0
    /\ \E value \in BlockIncrementInputs :
          blockIncrement' = IF value >= 10 /\ value <= 2048 THEN value ELSE blockIncrement
    /\ UNCHANGED <<tokenSize, paidGuess, overwrite, hasActualHash, hasSecretHash,
                   confirmModal, localStorage, submitCalls, requestedTokenSize,
                   lookup, isSubmitting>>
    /\ gsFrame

\* the hashes of the form: "" (a6Xk.tsx:140, 142) until genHashData has
\* generated one (a6Xk.tsx:313-347)
ZERO_HASH == "ZERO_HASH"
formActualHash == IF hasActualHash THEN "generated actual hash" ELSE ""
formSecretHash == IF hasSecretHash THEN "generated secret hash" ELSE ""

\* validateHashFormat of the utilities: the hashes of the form are ZERO_HASH
\* or come from genHashData and getUnrevealedHash, 64 hexadecimal digits each
validateHashFormat(hash) == hash # ""

\* the dummy hash the effect of a6Xk.tsx:213-241 leaves after a render
dummyHash ==
    IF /\ formActualHash # "" /\ formSecretHash # ""
       /\ formActualHash # ZERO_HASH /\ formSecretHash # ZERO_HASH
       /\ validateHashFormat(formActualHash) /\ validateHashFormat(formSecretHash)
    THEN "unrevealed hash"
    ELSE ZERO_HASH

\* errors.push(message) when the condition holds
pushIf(condition, message) == IF condition THEN {message} ELSE {}

\* validateForm without the test of overwrite
overwriteErrorsNone == {}

\* the test of overwrite in validateForm (a6Xk.tsx:394-398)
overwriteErrors ==
    pushIf(~overwrite,
           "Cannot submit the form with overwrite is false. Please enable overwrite to submit.")

\* validateForm (a6Xk.tsx:349-425): the errors of the form.  Its two isNaN
\* tests never push: the block increment and the token size are the initial
\* numbers or values that passed the range tests of their change handlers.
validateForm ==
    pushIf(guessId = 0, "Guess ID is required.")
        \cup pushIf(blockIncrement = 0, "Block Increment Count is required.")
        \cup pushIf(formActualHash = "", "Actual Hash is required.")
        \cup pushIf(formSecretHash = "", "Secret Key Hash is required.")
        \cup pushIf(dummyHash = "", "Dummy Hash is required.")
        \cup pushIf(tokenSize = 0, "Token Size is required.")
        \cup pushIf(blockIncrement < 10 \/ blockIncrement > 2048,
                    "Please enter a valid block number between 513 and 2048")
        \cup pushIf(tokenSize < 3 \/ tokenSize > 64,
                    "Please enter a valid token size between 4 and 64")
        \cup pushIf(formActualHash # "" /\ ~validateHashFormat(formActualHash),
                    "Actual hash must be a valid 64-character hexadecimal string.")
        \cup pushIf(formSecretHash # "" /\ ~validateHashFormat(formSecretHash),
                    "Secret key Hash must be a valid 64-character hexadecimal string.")
        \cup pushIf(dummyHash # "" /\ ~validateHashFormat(dummyHash),
                    "Dummy hash must be a valid 64-character hexadecimal string.")
        \cup overwriteErrors
        \cup pushIf(dummyHash = ZERO_HASH, "Dummy hash cannot be the default zero value.")
        \cup pushIf(formActualHash = ZERO_HASH, "Actual hash cannot be the default zero value.")
        \cup pushIf(formSecretHash = ZERO_HASH, "Secret key cannot be the default zero value.")
        \cup pushIf(tokenSize = 0, "Token Size cannot be zero.")

\* a call of a contract made by handleSubmit
SubmitCall(method, result) ==
    [method |-> method, result |-> result, tokenSize |-> 0, blockIncrement |-> 0,
     dummyHash |-> "", overwrite |-> FALSE]
SubmitBlockGuess(result) ==
    [method |-> "submitBlockGuess", result |-> result, tokenSize |-> tokenSize,
     blockIncrement |-> blockIncrement, dummyHash |-> dummyHash,
     overwrite |-> overwrite]

\* set(ref(database, `guesses/${registeredWallet}/${guessId}`), exportableData)
\* of the receipt handler (a6Xk.tsx:674-681)
FirebaseSet == SubmitCall("firebase set", "")

\* the errors handleSubmit throws or receives
SubmitError(message, code) == [message |-> message, code |-> code]
InsufficientBalance ==
    SubmitError("Insufficient token balance. You need 25 tokens but have 10.00 tokens.", 0)
ApprovalFailed == SubmitError("Token approval failed. Please try again.", 0)
UserDenied == SubmitError("User denied transaction signature", 4001)
Reverted == SubmitError("execution reverted", 0)
NoError == SubmitError("", 0)

\* the message of the catch of handleSubmit (a6Xk.tsx:701-735)
submitErrorMessage(error) ==
    IF includes(error.message, "User denied transaction signature") \/ error.code = 4001
    THEN "User denied transaction signature."
    ELSE IF includes(error.message, "Internal JSON-RPC error") \/ error.code = -32603
    THEN "Please increase gas fee! Also check gas and network settings!"
    ELSE IF includes(error.message, "revert")
    THEN "Transaction reverted."
    ELSE IF includes(error.message, "gas")
    THEN "Gas estimation failed."
    ELSE IF includes(error.message, "Insufficient token balance")
    THEN error.message
    ELSE IF includes(error.message, "Logic contract")
    THEN error.message
    ELSE IF includes(error.message, "Wrong network")
    THEN error.message
    ELSE IF includes(error.message, "Token approval failed")
    THEN "Token approval transaction failed. Please approve manually and retry."
    ELSE IF error.message # ""
    THEN error.message
    ELSE "An error occurred while submitting the form."

\* the catch of handleSubmit (a6Xk.tsx:701-746) after the calls made so far
gsFail(calls, error) ==
    /\ submitCalls' = calls
    /\ confirmModal' =
          [isOpen |-> TRUE, title |-> "Transaction Failed", type |-> "error",
           message |-> submitErrorMessage(error)]
    /\ UNCHANGED localStorage

\* what the token contract and the wallet can answer
TokenBalances == {10, 25}
TokenAllowances == {0, 25}
ApproveResults == {"receipt ok", "failed", "rejected"}

\* the catch of the token check rethrows (a6Xk.tsx:590-595)
tokenCheckRethrown(error) == includes(error.message, "Insufficient token balance")

\* the token check of a paid guess (a6Xk.tsx:530-596): the calls it makes and
\* the error that leaves its catch, if any
paidGuessCheck(balance, allowance, approved) ==
    LET calls == IF balance < 25
                 THEN <<SubmitCall("balanceOf", "")>>
                 ELSE IF allowance < 25
                 THEN <<SubmitCall("balanceOf", ""), SubmitCall("allowance", ""),
                        SubmitCall("approve", approved)>>
                 ELSE <<SubmitCall("balanceOf", ""), SubmitCall("allowance", "")>>
        thrown == IF balance < 25 THEN InsufficientBalance
                  ELSE IF allowance < 25 /\ approved = "failed" THEN ApprovalFailed
                  ELSE IF allowance < 25 /\ approved = "rejected" THEN UserDenied
                  ELSE NoError
    IN  [calls |-> calls,
         error |-> IF tokenCheckRethrown(thrown) THEN thrown ELSE NoError]

\* the receipt handler (a6Xk.tsx:616-690): the guess is stored under the
\* wallet's keys
storeGuess(storage, wallet, data) ==
    LET allKey == guessPageStorageKey(wallet, "allGuessSubmissions")
        lastKey == guessPageStorageKey(wallet, "lastGuessSubmission")
        existingGuesses == storage[allKey]
        index == {k \in 1..Len(existingGuesses) : existingGuesses[k].guessId = data.guessId}
    IN  [storage EXCEPT
            ![allKey] = IF index # {}
                        THEN [existingGuesses EXCEPT ![CHOOSE k \in index : \A j \in index : k <= j] = data]
                        ELSE Append(existingGuesses, data),
            ![lastKey] = <<data>>]

\* handleSubmit (a6Xk.tsx:473-750)
HandleSubmit ==
    /\ guessId # 0
    /\ IF validateForm # {}
       THEN /\ confirmModal' =
                  [isOpen |-> TRUE, title |-> "Validation Errors", type |-> "error",
                   message |-> "errors"]
            /\ submitCalls' = <<>>
            /\ UNCHANGED localStorage
       ELSE IF registeredWallet = NoWallet \/ registeredWallet = ZeroWallet
       THEN gsFail(<<>>, SubmitError("No registered wallet found. Please connect your wallet first.", 0))
       ELSE \E logicAddress \in {"", "0xL"} :
               IF logicAddress = ""
               THEN gsFail(<<>>, SubmitError("Logic contract not found. Please complete registration first.", 0))
               ELSE \E balance \in TokenBalances, allowance \in TokenAllowances,
                       approved \in ApproveResults, result \in SendResults :
                       LET check == IF paidGuess
                                    THEN paidGuessCheck(balance, allowance, approved)
                                    ELSE [calls |-> <<>>, error |-> NoError]
                           calls == Append(check.calls, SubmitBlockGuess(result))
                       IN  IF check.error # NoError
                           THEN gsFail(check.calls, check.error)
                           ELSE IF result = "rejected"
                           THEN gsFail(calls, UserDenied)
                           ELSE IF result = "receipt failed"
                           THEN gsFail(calls, Reverted)
                           ELSE /\ submitCalls' = Append(calls, FirebaseSet)
                                /\ localStorage' =
                                      storeGuess(localStorage, registeredWallet,
                                                 ExportableGuessData(guessId, tokenSize))
                                /\ confirmModal' =
                                      [isOpen |-> TRUE, title |-> "Success!",
                                       type |-> "success",
                                       message |-> "Guess submitted successfully!"]
    /\ isSubmitting' = FALSE
    /\ UNCHANGED <<tokenSize, paidGuess, overwrite, hasActualHash, hasSecretHash,
                   requestedTokenSize, lookup, blockIncrement>>
    /\ gsFrame

\* the mount effect of the off-chain verification page (taF9.tsx:169-186) for
\* the connected wallet
GetStoredGuessData ==
    /\ guessId # 0
    /\ lookup' = [by |-> "getStoredGuessData", guessId |-> guessId,
                  found |-> getStoredGuessData(localStorage, registeredWallet, guessId)
                               # NoStoredGuess]
    /\ UNCHANGED <<tokenSize, paidGuess, overwrite, hasActualHash, hasSecretHash,
                   confirmModal, localStorage, submitCalls, requestedTokenSize>>
    /\ UNCHANGED formVars
    /\ gsFrame

\* readSingleGuess of the dashboard ring (9IaY.tsx:135-206) for the connected
\* wallet
ReadSingleGuess ==
    /\ guessId # 0
    /\ lookup' = [by |-> "readSingleGuess", guessId |-> guessId,
                  found |-> readSingleGuess(localStorage, registeredWallet, guessId).found]
    /\ UNCHANGED <<tokenSize, paidGuess, overwrite, hasActualHash, hasSecretHash,
                   confirmModal, localStorage, submitCalls, requestedTokenSize>>
    /\ UNCHANGED formVars
    /\ gsFrame

(***************************************************************************)
(* Specification SpecGuess: a GuessPage is mounted for a guess id, with or *)
(* without a wallet, over a storage that is empty or holds legacy data.    *)
(***************************************************************************)
\* storage written before the keys were scoped by wallet
LegacyStorage ==
    [EmptyStorage EXCEPT ![<<"allGuessSubmissions">>] = <<ExportableGuessData(1, 3)>>,
                         ![<<"lastGuessSubmission">>] = <<ExportableGuessData(1, 3)>>]

InitGuess ==
    /\ guessId \in GuessIds
    /\ registeredWallet \in Wallets
    /\ paidGuess = FALSE /\ overwrite = FALSE
    /\ hasActualHash = FALSE /\ hasSecretHash = FALSE
    /\ tokenSize = 3
    /\ confirmModal = NoModal
    /\ localStorage \in {EmptyStorage, LegacyStorage}
    /\ submitCalls = <<>> /\ requestedTokenSize = 3
    /\ lookup = NoLookup
    /\ actualHash = <<>> /\ minedBlockHash = <<>>
    /\ variant = "none" /\ fetchedTokens = <<>> /\ foundTokens = <<>>
    /\ TokIdle
    /\ RangeIdle
    /\ VerifyIdle
    /\ blockIncrement = 10 /\ isSubmitting = FALSE
    /\ OnChainIdle
    /\ PaymentIdle
    /\ ProceedIdle
    /\ LoadIdle

NextGuess ==
    \/ MigrateOldData
    \/ MigrateOldDataPart001
    \/ HandleTokenSizeChange
    \/ HandlePaidGuessChange
    \/ HandleOverwriteChange
    \/ HandleGenerateActualHash
    \/ HandleGenerateSecretHash
    \/ HandleClear
    \/ HandleSubmit
    \/ GetStoredGuessData
    \/ ReadSingleGuess

SpecGuess == InitGuess /\ [][NextGuess]_vars

(***************************************************************************)
(* Specification SpecSubmit: the form of a GuessPage is filled in, with    *)
(* its block increment, and submitted, with or without a wallet.           *)
(***************************************************************************)
InitSubmit ==
    /\ guessId = 1
    /\ registeredWallet \in Wallets \cup {NoWallet}
    /\ paidGuess = FALSE /\ overwrite = FALSE
    /\ hasActualHash = FALSE /\ hasSecretHash = FALSE
    /\ tokenSize = 3
    /\ confirmModal = NoModal
    /\ localStorage = EmptyStorage
    /\ submitCalls = <<>> /\ requestedTokenSize = 3
    /\ lookup = NoLookup
    /\ blockIncrement = 10 /\ isSubmitting = FALSE
    /\ actualHash = <<>> /\ minedBlockHash = <<>>
    /\ variant = "none" /\ fetchedTokens = <<>> /\ foundTokens = <<>>
    /\ TokIdle
    /\ RangeIdle
    /\ VerifyIdle
    /\ OnChainIdle
    /\ PaymentIdle
    /\ ProceedIdle
    /\ LoadIdle

NextSubmit ==
    \/ HandleBlockIncrementChange
    \/ HandleTokenSizeChange
    \/ HandlePaidGuessChange
    \/ HandleOverwriteChange
    \/ HandleGenerateActualHash
    \/ HandleGenerateSecretHash
    \/ HandleClear
    \/ HandleSubmit

SpecSubmit == InitSubmit /\ [][NextSubmit]_vars


(***************************************************************************)
(* From the off-chain verification page (taF9.tsx) to the on-chain         *)
(* verification page (p0Xo.tsx): the match data saved by the one and       *)
(* loaded by the other.                                                    *)
(***************************************************************************)
PageP0Xo == "p0Xo.tsx"

\* the keys under which match data is kept (taF9.tsx:350, p0Xo.tsx:92-99)
MatchDataKeys ==
    {<<"matchData">>} \cup {getWalletStorageKey("matchData", w) : w \in Wallets}

\* the match data handleVerify saves (taF9.tsx:336-348)
MatchData(id) == [guessId |-> id, matchResult |-> TRUE]

\* the frame of the actions of this specification
prFrame ==
    UNCHANGED <<tokVars, matchVars, complex, targetBlockCount, chainHeight,
                currentBlockNumber, blockRangeIndication, web3Instance,
                storedGuessData, fetchedBlockHash, targetBlockHash,
                showMatchDetails, complexCalculation, showComplexCalculation,
                requestedBlocks, navigated, pipeline, onChainPage, isConnected,
                connectedAccount, matchedTokens, encodedMatchData,
                selectedMatches, gasEstimate, showGasConfirmation,
                contractCalls, registeredWallet, paidGuess, overwrite,
                hasActualHash, hasSecretHash, confirmModal, submitCalls,
                requestedTokenSize, lookup, formVars, paymentVars, loadVars>>

\* the off-chain verification page is opened for a guess (taF9.tsx:72-99)
OpenVerifyOffChain ==
    /\ \E id \in GuessIds : guessId' = id
    /\ page' = PageHandleVerify
    /\ matchResult' = "null"
    /\ matchData' = <<>>
    /\ alertMessage' = NoAlert
    /\ verificationStatus' = "idle"
    /\ UNCHANGED <<localStorage, lastSent, verifiedOffChain>>
    /\ prFrame

\* handleVerify (taF9.tsx:237-372), what it leaves for the on-chain page: the
\* result of the comparison and, on a match, the match data in localStorage
HandleVerifyMatchData ==
    /\ page = PageHandleVerify
    /\ \E match \in BOOLEAN :
          /\ matchResult' = IF match THEN "true" ELSE "false"
          /\ IF match
             THEN /\ alertMessage' = [type |-> "success", message |-> "Verification successful"]
                  /\ localStorage' =
                        [localStorage EXCEPT
                            ![getWalletStorageKey("matchData", registeredWallet)] =
                                <<MatchData(guessId)>>]
                  /\ verifiedOffChain' = verifiedOffChain \cup {guessId}
             ELSE /\ alertMessage' = [type |-> "error", message |-> "Verification failed"]
                  /\ UNCHANGED <<localStorage, verifiedOffChain>>
    /\ UNCHANGED <<page, guessId, matchData, verificationStatus, lastSent>>
    /\ prFrame

\* the mount effect of the on-chain page, without location.state
\* (p0Xo.tsx:79-113): the loaded match data and the alert
loadMatchData(storage, currentWallet) ==
    IF storage[getWalletStorageKey("matchData", currentWallet)] # <<>>
    THEN storage[getWalletStorageKey("matchData", currentWallet)]
    ELSE storage[<<"matchData">>]

\* the on-chain page mounts for the guess id of its route
mountVerifyOnChain(id) ==
    /\ guessId' = id
    /\ page' = PageP0Xo
    /\ matchData' = loadMatchData(localStorage, registeredWallet)
    /\ alertMessage' =
          IF loadMatchData(localStorage, registeredWallet) = <<>>
          THEN [type |-> "warning", message |-> "No verification data found."]
          ELSE NoAlert
    /\ verificationStatus' = "idle"
    /\ matchResult' = "null"
    /\ UNCHANGED <<localStorage, lastSent, verifiedOffChain>>

\* handleProceedToOnChain (taF9.tsx:378-382) and the mount of the page it
\* navigates to
ProceedToOnChain ==
    /\ page = PageHandleVerify
    /\ matchResult = "true"
    /\ mountVerifyOnChain(guessId)
    /\ prFrame

\* the on-chain page is opened by its address /verify-onchain/:id
\* (p0Xo.tsx:61, useParams)
OpenVerifyOnChain ==
    /\ \E id \in GuessIds : mountVerifyOnChain(id)
    /\ prFrame

\* the catch of handleVerifyOnChain (p0Xo.tsx:243-275)
pvFail(message) ==
    /\ verificationStatus' = "error"
    /\ alertMessage' = [type |-> "error", message |-> message]
    /\ UNCHANGED <<localStorage, lastSent>>

\* handleVerifyOnChain (p0Xo.tsx:115-279), offered while the verification has
\* not succeeded (p0Xo.tsx:514-515)
HandleVerifyOnChain ==
    /\ page = PageP0Xo
    /\ verificationStatus # "success"
    /\ IF matchData = <<>>
       THEN /\ alertMessage' = [type |-> "error", message |-> "No match data available for on-chain verification."]
            /\ UNCHANGED <<verificationStatus, localStorage, lastSent>>
       ELSE IF ~matchData[1].matchResult
       THEN /\ alertMessage' = [type |-> "error", message |-> "Off-chain verification failed."]
            /\ UNCHANGED <<verificationStatus, localStorage, lastSent>>
       ELSE IF registeredWallet = NoWallet \/ registeredWallet = ZeroWallet
       THEN pvFail("No registered wallet found. Please connect your wallet first.")
       ELSE \E logicAddress \in {"", "0xL"}, result \in SendResults :
               IF logicAddress = ""
               THEN pvFail("Logic contract not found. Please complete registration first.")
               ELSE /\ lastSent' = [sent |-> TRUE, guessId |-> guessId,
                                    matchData |-> matchData[1]]
                    /\ IF result = "receipt ok"
                       THEN /\ verificationStatus' = "success"
                            /\ alertMessage' = [type |-> "success", message |-> "On-chain verification successful!"]
                            /\ localStorage' =
                                  [localStorage EXCEPT
                                      ![getWalletStorageKey("matchData", registeredWallet)] = <<>>,
                                      ![<<"matchData">>] = <<>>]
                       ELSE /\ verificationStatus' = "error"
                            /\ alertMessage' =
                                  [type |-> "error",
                                   message |-> IF result = "rejected"
                                               THEN "User denied transaction signature."
                                               ELSE "Transaction reverted."]
                            /\ UNCHANGED localStorage
    /\ UNCHANGED <<page, guessId, matchData, matchResult, verifiedOffChain>>
    /\ prFrame

(***************************************************************************)
(* Specification SpecProceed: a wallet, a storage that is empty or holds   *)
(* match data left by an earlier session, and the two verification pages.  *)
(***************************************************************************)
NoMatchData == [key \in MatchDataKeys |-> <<>>]

\* storage and the verifications that wrote it
EarlierSessions ==
    {[storage |-> NoMatchData, verified |-> {}],
     [storage |-> [NoMatchData EXCEPT ![<<"matchData">>] = <<MatchData(1)>>],
      verified |-> {1}],
     [storage |-> [NoMatchData EXCEPT ![<<"matchData">>] =
                      <<[guessId |-> 2, matchResult |-> FALSE]>>],
      verified |-> {}]}

InitProceed ==
    /\ registeredWallet \in Wallets \cup {NoWallet}
    /\ \E earlier \in EarlierSessions :
          /\ localStorage = earlier.storage
          /\ verifiedOffChain = earlier.verified
    /\ guessId \in GuessIds
    /\ page = PageHandleVerify
    /\ matchResult = "null"
    /\ matchData = <<>>
    /\ alertMessage = NoAlert
    /\ verificationStatus = "idle"
    /\ lastSent = NoTransaction
    /\ complex = FALSE /\ targetBlockCount = 0
    /\ chainHeight = 0 /\ currentBlockNumber = 0
    /\ blockRangeIndication = [blockDistance |-> 0, indication |-> "none", color |-> ""]
    /\ web3Instance = FALSE /\ storedGuessData = NoGuess
    /\ fetchedBlockHash = <<>> /\ targetBlockHash = <<>>
    /\ showMatchDetails = FALSE
    /\ complexCalculation = NoComplexCalculation
    /\ showComplexCalculation = FALSE
    /\ requestedBlocks = {} /\ navigated = FALSE /\ pipeline = <<>>
    /\ onChainPage = "none" /\ isConnected = FALSE /\ connectedAccount = ""
    /\ matchedTokens = <<>> /\ encodedMatchData = <<>>
    /\ selectedMatches = <<>>
    /\ gasEstimate = NoGasEstimate /\ showGasConfirmation = FALSE
    /\ contractCalls = <<>>
    /\ paidGuess = FALSE /\ overwrite = FALSE
    /\ hasActualHash = FALSE /\ hasSecretHash = FALSE
    /\ confirmModal = NoModal
    /\ submitCalls = <<>> /\ requestedTokenSize = 0
    /\ lookup = NoLookup
    /\ FormIdle
    /\ PaymentIdle
    /\ LoadIdle
    /\ TokIdle
    /\ MatchIdle

NextProceed ==
    \/ OpenVerifyOffChain
    \/ HandleVerifyMatchData
    \/ ProceedToOnChain
    \/ OpenVerifyOnChain
    \/ HandleVerifyOnChain

SpecProceed == InitProceed /\ [][NextProceed]_vars


(***************************************************************************)
(* The VerifyOffChain variant with handleFetchAndVerify (part_001:862-1800)*)
(* and its load effect.                                                    *)
(***************************************************************************)
\* getWalletStorageKey of part_001:900-902: `${walletAddress}_${key}`
verifyPageStorageKey(walletAddress, key) == <<walletAddress, "_", key>>

ConnectedAccounts == {"", "0xW", "0xV"}

\* a guess of allGuessSubmissions as the load effect reads it
SubmittedGuess(id, sizeOfToken, blockNumber) ==
    [guessId |-> id, tokenSize |-> sizeOfToken, contractBlockNumber |-> blockNumber]

\* the lists a wallet's allGuessSubmissions can hold
GuessLists ==
    {<<>>,
     <<SubmittedGuess(1, 3, 40)>>,
     <<SubmittedGuess(2, 0, 256)>>,
     <<SubmittedGuess(1, 3, 40), SubmittedGuess(2, 4, 256)>>}

\* the outcome of a call that threw the message
Threw(message) == [threw |-> TRUE, message |-> message]

\* setIsLoading (part_001:1803-1805)
setIsLoading(arg0) == Threw("Function not implemented.")

\* getWalletLocalStorage (part_001:904-908) of allGuessSubmissions, `|| []`
allGuessesOf(storage, walletAddress) ==
    storage[verifyPageStorageKey(walletAddress, "allGuessSubmissions")]

\* allGuesses.find((g) => g.guessId === guessId)
currentGuessOf(allGuesses, id) == SelectSeq(allGuesses, LAMBDA g : g.guessId = id)

\* the frame of the actions of this specification
ldFrame ==
    UNCHANGED <<tokVars, actualHash, minedBlockHash, variant, fetchedTokens,
                foundTokens, page, complex, chainHeight, currentBlockNumber,
                blockRangeIndication, fetchedBlockHash, targetBlockHash,
                matchResult, showMatchDetails, complexCalculation,
                showComplexCalculation, matchData, requestedBlocks, navigated,
                pipeline, onChainPage, isConnected, matchedTokens,
                encodedMatchData, selectedMatches, verificationStatus,
                gasEstimate, showGasConfirmation, contractCalls, lastSent,
                registeredWallet, paidGuess, overwrite, hasActualHash,
                hasSecretHash, confirmModal, localStorage, submitCalls,
                requestedTokenSize, lookup, formVars, paymentVars,
                proceedVars>>

\* the state loadGuessData sets from the guess it found (part_001:945-952)
setFromGuess(currentGuess) ==
    /\ storedGuessData' = currentGuess
    /\ tokenSize' = IF currentGuess.tokenSize # 0 THEN currentGuess.tokenSize ELSE 3
    /\ targetBlockCount' = currentGuess.contractBlockNumber

\* the load effect (part_001:930-965), run when the page mounts and when the
\* guess id of the route or the connected wallet changes
LoadGuessData ==
    /\ \E id \in GuessIds, account \in ConnectedAccounts :
          /\ guessId' = id
          /\ connectedAccount' = account
          /\ IF account = ""
             THEN /\ loadOutcome' = [ran |-> TRUE, error |-> ""]
                  /\ UNCHANGED <<storedGuessData, tokenSize, targetBlockCount>>
             ELSE IF setIsLoading(TRUE).threw
             THEN \* the catch: console.error, then setIsLoading(false)
                  /\ loadOutcome' =
                        [ran |-> TRUE,
                         error |-> IF setIsLoading(FALSE).threw
                                   THEN setIsLoading(FALSE).message ELSE ""]
                  /\ UNCHANGED <<storedGuessData, tokenSize, targetBlockCount>>
             ELSE LET found == currentGuessOf(allGuessesOf(localStorage, account), id)
                  IN  /\ IF found # <<>>
                         THEN setFromGuess(found[1])
                         ELSE UNCHANGED <<storedGuessData, tokenSize, targetBlockCount>>
                      /\ loadOutcome' =
                            [ran |-> TRUE,
                             error |-> IF setIsLoading(FALSE).threw
                                       THEN setIsLoading(FALSE).message ELSE ""]
    /\ UNCHANGED <<web3Instance, alertMessage>>
    /\ ldFrame

\* initWeb3 (part_001:969-990)
InitWeb3 ==
    /\ loadOutcome.ran
    /\ \E ok \in BOOLEAN : web3Instance' = ok
    /\ UNCHANGED <<guessId, connectedAccount, storedGuessData, tokenSize,
                   targetBlockCount, alertMessage, loadOutcome>>
    /\ ldFrame

\* what a verification that got past the checks reports (part_001:1177-1359)
FetchAndVerifyReports ==
    {[type |-> "warning", message |-> "Block Not Mined Yet"],
     [type |-> "error", message |-> "Block Too Far"],
     [type |-> "warning", message |-> "No Matches"],
     [type |-> "success", message |-> "Match Found!"]}

\* handleFetchAndVerify (part_001:1162-1359): its two checks, and the report
\* of the verification behind them
HandleFetchAndVerify ==
    /\ loadOutcome.ran
    /\ IF ~web3Instance
       THEN alertMessage' = [type |-> "error", message |-> "Initialization Error"]
       ELSE IF targetBlockCount = 0
       THEN alertMessage' = [type |-> "warning", message |-> "Missing Information"]
       ELSE alertMessage' \in FetchAndVerifyReports
    /\ UNCHANGED <<guessId, connectedAccount, storedGuessData, tokenSize,
                   targetBlockCount, web3Instance, loadOutcome>>
    /\ ldFrame

(***************************************************************************)
(* Specification SpecLoad: the page before its effects have run, over a    *)
(* storage holding the guesses of the wallet.                              *)
(***************************************************************************)
InitLoad ==
    /\ page = PageFetchAndVerify
    /\ guessId \in GuessIds
    /\ connectedAccount = ""
    /\ \E allGuesses \in GuessLists :
          localStorage =
             [key \in {verifyPageStorageKey(w, "allGuessSubmissions") :
                          w \in ConnectedAccounts \ {""}} |-> allGuesses]
    /\ storedGuessData = NoGuess
    /\ tokenSize = 0 /\ targetBlockCount = 0
    /\ web3Instance = FALSE
    /\ alertMessage = NoAlert
    /\ loadOutcome = NotRun
    /\ actualHash = <<>> /\ minedBlockHash = <<>>
    /\ variant = "none" /\ fetchedTokens = <<>> /\ foundTokens = <<>>
    /\ complex = FALSE /\ chainHeight = 0 /\ currentBlockNumber = 0
    /\ blockRangeIndication = [blockDistance |-> 0, indication |-> "none", color |-> ""]
    /\ fetchedBlockHash = <<>> /\ targetBlockHash = <<>>
    /\ matchResult = "null" /\ showMatchDetails = FALSE
    /\ complexCalculation = NoComplexCalculation
    /\ showComplexCalculation = FALSE
    /\ matchData = <<>> /\ requestedBlocks = {} /\ navigated = FALSE
    /\ pipeline = <<>>
    /\ onChainPage = "none" /\ isConnected = FALSE
    /\ matchedTokens = <<>> /\ encodedMatchData = <<>>
    /\ selectedMatches = <<>> /\ verificationStatus = "pending"
    /\ gasEstimate = NoGasEstimate /\ showGasConfirmation = FALSE
    /\ contractCalls = <<>> /\ lastSent = NoTransaction
    /\ registeredWallet = <<>>
    /\ paidGuess = FALSE /\ overwrite = FALSE
    /\ hasActualHash = FALSE /\ hasSecretHash = FALSE
    /\ confirmModal = NoModal
    /\ submitCalls = <<>> /\ requestedTokenSize = 0
    /\ lookup = NoLookup
    /\ FormIdle
    /\ PaymentIdle
    /\ ProceedIdle
    /\ TokIdle

NextLoad ==
    \/ LoadGuessData
    \/ InitWeb3
    \/ HandleFetchAndVerify

SpecLoad == InitLoad /\ [][NextLoad]_vars

(***************************************************************************)
(* The payment modal of the car booking page: CarDetails (part_000) opens  *)
(* PaymentModal (part_003:363-613), whose Pay button starts a 1.5 s timer  *)
(* that starts a 2.5 s timer that calls onPaymentSuccess, the booking      *)
(* request of CarDetails.  Timers of one delay fire in the order they were *)
(* started; no timer is ever cleared.                                      *)
(***************************************************************************)
\* how often the modal is opened and Pay is clicked
MaxOpenings == 2
MaxPayClicks == 3

\* the dates of the booking form: none, or a day
BookingDates == {0, 1, 2}

\* what the server answers to POST /api/bookings/create (part_000:68-77)
BookingResponses == {"success", "failure", "error"}

\* what the actions of this specification leave alone
pyFrame ==
    UNCHANGED <<tokVars, matchVars, rangeVars, verifyVars, onChainVars,
                guessVars, formVars, proceedVars, loadVars>>

\* handleSubmit of CarDetails (part_000:34-58): Book Now
CarDetailsHandleSubmit ==
    /\ ~showPaymentModal
    /\ modalOpenings < MaxOpenings
    /\ \E pickupDate \in BookingDates, returnDate \in BookingDates :
          IF pickupDate = 0 \/ returnDate = 0
          THEN UNCHANGED <<showPaymentModal, modalOpenings, isProcessing, showSuccess>>
          ELSE IF returnDate <= pickupDate
          THEN UNCHANGED <<showPaymentModal, modalOpenings, isProcessing, showSuccess>>
          ELSE /\ showPaymentModal' = TRUE
               /\ modalOpenings' = modalOpenings + 1
               /\ isProcessing' = FALSE
               /\ showSuccess' = FALSE
    /\ UNCHANGED <<processingTimers, successTimers, payClicks, bookingRequests,
                   closedEarly>>
    /\ pyFrame

\* the Pay clicks of the mounted modal whose 1.5 s timer has not fired
paymentsUnderWay ==
    {processingTimers[k].click :
        k \in {j \in 1..Len(processingTimers) :
                  processingTimers[j].opening = modalOpenings}}

\* onClose (part_000:225), from the overlay or the X button (part_003:403-428):
\* the modal is unmounted, its timers are left running
OnClose ==
    /\ showPaymentModal
    /\ showPaymentModal' = FALSE
    /\ isProcessing' = FALSE
    /\ showSuccess' = FALSE
    /\ closedEarly' = closedEarly \cup paymentsUnderWay
    /\ UNCHANGED <<processingTimers, successTimers, modalOpenings, payClicks,
                   bookingRequests>>
    /\ pyFrame

\* handlePayment (part_003:380-394) up to its setTimeout; the Pay button is
\* disabled while isProcessing (part_003:541-544)
HandlePayment ==
    /\ showPaymentModal
    /\ ~isProcessing
    /\ payClicks < MaxPayClicks
    /\ isProcessing' = TRUE
    /\ payClicks' = payClicks + 1
    /\ processingTimers' =
          Append(processingTimers, [opening |-> modalOpenings, click |-> payClicks + 1])
    /\ UNCHANGED <<showPaymentModal, showSuccess, successTimers, modalOpenings,
                   bookingRequests, closedEarly>>
    /\ pyFrame

\* the modal that started the timer is still mounted
stillMounted(timer) == showPaymentModal /\ timer.opening = modalOpenings

\* the callback of the 1.5 s timer (part_003:384-393); the state setters of an
\* unmounted modal set nothing
ProcessingTimerFires ==
    /\ processingTimers # <<>>
    /\ LET timer == Head(processingTimers)
       IN  /\ processingTimers' = Tail(processingTimers)
           /\ successTimers' = Append(successTimers, timer)
           /\ IF stillMounted(timer)
              THEN isProcessing' = FALSE /\ showSuccess' = TRUE
              ELSE UNCHANGED <<isProcessing, showSuccess>>
    /\ UNCHANGED <<showPaymentModal, modalOpenings, payClicks, bookingRequests,
                   closedEarly>>
    /\ pyFrame

\* the callback of the 2.5 s timer (part_003:389-392) and the
\* handlePaymentSuccess it calls (part_000:60-78)
SuccessTimerFires ==
    /\ successTimers # <<>>
    /\ LET timer == Head(successTimers)
       IN  \E response \in BookingResponses :
              /\ successTimers' = Tail(successTimers)
              /\ bookingRequests' =
                    Append(bookingRequests,
                           [opening |-> timer.opening, click |-> timer.click,
                            response |-> response])
              /\ IF response = "success"
                 THEN /\ showPaymentModal' = FALSE
                      /\ isProcessing' = FALSE
                      /\ showSuccess' = FALSE
                 ELSE /\ UNCHANGED <<showPaymentModal, isProcessing>>
                      /\ showSuccess' = IF stillMounted(timer) THEN FALSE ELSE showSuccess
    /\ UNCHANGED <<processingTimers, modalOpenings, payClicks, closedEarly>>
    /\ pyFrame

(***************************************************************************)
(* Specification SpecPayment: the car booking page, its modal and timers.  *)
(***************************************************************************)
InitPayment ==
    /\ PaymentIdle
    /\ TokIdle
    /\ MatchIdle
    /\ RangeIdle
    /\ VerifyIdle
    /\ OnChainIdle
    /\ GuessIdle
    /\ FormIdle
    /\ ProceedIdle
    /\ LoadIdle

NextPayment ==
    \/ CarDetailsHandleSubmit
    \/ OnClose
    \/ HandlePayment
    \/ ProcessingTimerFires
    \/ SuccessTimerFires

SpecPayment == InitPayment /\ [][NextPayment]_vars


(***************************************************************************)
(* Claims about the tokenizers, under Spec.                                *)
(***************************************************************************)
RECURSIVE Concat(_)
Concat(ss) == IF ss = <<>> THEN <<>> ELSE Head(ss) \o Concat(Tail(ss))

CeilDiv(a, b) == (a + b - 1) \div b

\* the string the sliding tokenizer was given
SlidInput == removePrefix(hexStr)
\* the string the chunked tokenizer cuts up
ChunkInput == replace0x(hexStr)

\* C3: for a prefix-free string h and 1 <= size <= len(h) the sliding-window
\* tokenize returns exactly len(h)-size+1 tokens, the k-th being the size
\* characters of h that start at position k.
C3_SlidingWindowTokens ==
    (fn = "sliding" /\ pc = "returned" /\ size >= 1 /\ size <= Len(SlidInput)) =>
        /\ Len(tokens) = Len(SlidInput) - size + 1
        /\ \A k \in 1..Len(tokens) :
              /\ Len(tokens[k]) = size
              /\ tokens[k] = SubSeq(SlidInput, k, k + size - 1)

C3_Witness ==
    /\ fn = "sliding" /\ pc = "returned"
    /\ size >= 2 /\ size < Len(SlidInput)
    /\ Len(tokens) >= 2

\* C4: for 1 <= size <= len(h), h being the hash without its 0x, the chunked
\* tokenize returns ceil(len(h)/size) tokens, all of length size except
\* possibly the last, whose concatenation is h.
C4_ChunkedTokens ==
    (fn = "chunked" /\ pc = "returned" /\ size >= 1 /\ size <= Len(ChunkInput)) =>
        /\ Len(tokens) = CeilDiv(Len(ChunkInput), size)
        /\ \A k \in 1..(Len(tokens) - 1) : Len(tokens[k]) = size
        /\ Len(tokens[Len(tokens)]) \in 1..size
        /\ Concat(tokens) = ChunkInput

C4_Witness ==
    /\ fn = "chunked" /\ pc = "returned"
    /\ startsWith0x(hexStr)
    /\ size >= 2 /\ size < Len(ChunkInput)
    /\ Len(tokens) >= 2
    /\ Len(tokens[Len(tokens)]) < size

\* C6: the chunked tokenize terminates for every hash and every integer size.
\* The loop runs while i < len, and neither len nor size changes in it, so it
\* ends exactly when every iteration brings i closer to len: the distance
\* len - i is the loop's variant and must fall with each iteration.
C6_ChunkedTerminates ==
    [][(pc = "loop" /\ pc' = "loop") => (Len(ChunkInput) - i' < Len(ChunkInput) - i)]_vars

(***************************************************************************)
(* Claims about the matchers, under SpecMatch.                             *)
(***************************************************************************)
\* the token values a match result lists, in order
MatchValues ==
    IF variant = "chunked"
    THEN [k \in 1..Len(foundTokens) |-> foundTokens[k].token]
    ELSE foundTokens

\* the tokens of a hash under the tokenizer of the variant that ran
TokensOf(hash) ==
    IF variant = "chunked"
    THEN tokenizeChunked(hash, tokenSize)
    ELSE tokenize(removePrefix(toLowerCase(hash)), tokenSize)

NoRepeat(s) == \A j, k \in 1..Len(s) : s[j] = s[k] => j = k

\* C1 for the sliding-window matcher alone
C1_FindMatchingTokensPart ==
    (variant = "sliding" /\ tokenSize >= 1) =>
        /\ Range(MatchValues) = Range(TokensOf(actualHash)) \cap Range(TokensOf(minedBlockHash))
        /\ NoRepeat(MatchValues)
        /\ Range(findMatchingTokens(minedBlockHash, actualHash, tokenSize)) = Range(MatchValues)

\* C1: under the set policy the match result of either matcher lists exactly
\* the distinct token values that occur among the tokens of both hashes, each
\* value once; so the swapped call yields the same set of values.
C1_SetIntersection ==
    (variant # "none" /\ tokenSize >= 1) =>
        /\ Range(MatchValues) = Range(TokensOf(actualHash)) \cap Range(TokensOf(minedBlockHash))
        /\ NoRepeat(MatchValues)
        /\ variant = "sliding" =>
              Range(findMatchingTokens(minedBlockHash, actualHash, tokenSize)) = Range(MatchValues)
        /\ variant = "chunked" =>
              {m.token : m \in Range(chunkMatches(minedBlockHash, actualHash, tokenSize))}
                  = Range(MatchValues)

\* C5: tokenizing or matching with an invalid size (size <= 0, or greater than
\* the length of a hash) fails with a RangeError: no call with such a size
\* returns a token list or a match list.
C5_InvalidSizeFails ==
    variant # "none" =>
        /\ tokenSize >= 1
        /\ tokenSize <= Len(removePrefix(actualHash))
        /\ tokenSize <= Len(removePrefix(minedBlockHash))

\* index of the first occurrence of a value in a token list
FirstIndex(s, x) == CHOOSE k \in 1..Len(s) : s[k] = x /\ \A j \in 1..(k - 1) : s[j] # x

\* C7: the matches of findMatchingTokens are ordered by first occurrence in
\* the guessed hash, so the first two are the earliest matches of the guess.
C7_OrderedByGuess ==
    (variant = "sliding" /\ tokenSize >= 1) =>
        \A j, k \in 1..Len(foundTokens) :
            j < k => FirstIndex(TokensOf(actualHash), foundTokens[j])
                       < FirstIndex(TokensOf(actualHash), foundTokens[k])

(***************************************************************************)
(* Claims about the block-range indication, under SpecRange.               *)
(***************************************************************************)
\* the threshold triple in use on the mounted page
ThresholdsInUse ==
    IF page = PageFetchTarget THEN <<2, 10, 256>>
    ELSE IF complex THEN <<32, 64, 96>> ELSE <<64, 128, 192>>

\* C8: calculateBlockRangeIndication with thresholds [t1,t2,t3] returns dark
\* green iff distance <= t1, light green iff t1 < distance <= t2, light red
\* iff t2 < distance <= t3 and dark red iff distance > t3, for the triples
\* [2,10,256], [64,128,192] (simple) and [32,64,96] (complex); distance 5 with
\* [2,10,256] is light green and distance 500 is dark red.
C8_Buckets ==
    (page \in {PageFetchTarget, PageFetchAndVerify} /\ blockRangeIndication # NoIndication) =>
        LET d == blockRangeIndication.blockDistance
            ind == blockRangeIndication.indication
            t == ThresholdsInUse
        IN  /\ d >= 0
            /\ (ind = "dark green") <=> (d <= t[1])
            /\ (ind = "light green") <=> (t[1] < d /\ d <= t[2])
            /\ (ind = "light red") <=> (t[2] < d /\ d <= t[3])
            /\ (ind = "dark red") <=> (d > t[3])
            /\ (page = PageFetchTarget /\ d = 5) => ind = "light green"
            /\ (page = PageFetchTarget /\ d = 500) => ind = "dark red"

C8_Witness ==
    /\ page = PageFetchTarget
    /\ blockRangeIndication.blockDistance = 500
    /\ blockRangeIndication.indication = "dark red"

\* how far from safe (dark green) a bucket is
Rank(ind) ==
    CASE ind = "dark green" -> 0
      [] ind = "light green" -> 1
      [] ind = "light red" -> 2
      [] ind = "dark red" -> 3

\* both indications of a step were worked out from a block distance
Classified ==
    /\ chainHeight > 0
    /\ blockRangeIndication # NoIndication
    /\ blockRangeIndication' # NoIndication

\* the indication of the later of two classifications is no safer when its
\* distance is no smaller, and no less safe when its distance is no greater
MonotonicStep ==
    LET d1 == Abs(blockRangeIndication.blockDistance)
        d2 == Abs(blockRangeIndication'.blockDistance)
        r1 == Rank(blockRangeIndication.indication)
        r2 == Rank(blockRangeIndication'.indication)
    IN  /\ d1 <= d2 => r1 <= r2
        /\ d2 <= d1 => r2 <= r1

\* C9 for the two variants of part_001 alone
C9_Part001Monotonic ==
    [][(page # PageHandleVerify /\ Classified) => MonotonicStep]_vars

\* C9: the classification is monotonic in every variant: for block distances
\* d1 <= d2 (absolute difference of target block and chain height) the bucket
\* of d2 is never safer than the bucket of d1.
C9_Monotonic ==
    [][Classified => MonotonicStep]_vars

(***************************************************************************)
(* Claims about the verification handlers, under SpecVerify.               *)
(***************************************************************************)
\* handleVerify has reported a match
ReportedMatch ==
    /\ page = PageHandleVerify
    /\ matchResult = "true"

\* the tokens of the hash handleVerify fetched, cut as the handler cuts them
FetchedHashTokens ==
    regexChunks(replaceFirst0x(fetchedBlockHash), tokenSize)

\* C2 for the guesses that carry tokens: a reported match has every guess token
\* equal to the token of the fetched hash at the same index
C2_NonEmptyPart ==
    (ReportedMatch /\ storedGuessData.tokens # <<>>) =>
        LET userTokens == storedGuessData.tokens
        IN  /\ Len(userTokens) <= Len(FetchedHashTokens)
            /\ \A k \in 1..Len(userTokens) : userTokens[k] = FetchedHashTokens[k]

\* C2: handleVerify reports a match only if the guess token sequence is not
\* empty and every guess token equals the fetched-hash token at the same
\* index; with an empty stored token list the result is never a match: no
\* success alert, no match data saved, no on-chain step enabled.
C2_PositionalMatch ==
    /\ ReportedMatch =>
          /\ storedGuessData.tokens # <<>>
          /\ \A k \in 1..Len(storedGuessData.tokens) :
                /\ k <= Len(FetchedHashTokens)
                /\ storedGuessData.tokens[k] = FetchedHashTokens[k]
    /\ (page = PageHandleVerify /\ storedGuessData.tokens = <<>>) =>
          /\ matchResult # "true"
          /\ alertMessage.type # "success"
          /\ matchData = <<>>
          /\ ~navigated

\* the modulus of the complex calculation of the mounted page: the offset is
\* byteValue % 256 in part_001:311 and (byteValue % 100) + 1 in taF9.tsx:283
Modulus == IF page = PageFetchTarget THEN 256 ELSE 100

\* a complex calculation has been carried through
Derived == complexCalculation # NoComplexCalculation

\* C10, first half: the derived block number is not negative when the target
\* block is at least the modulus
C10_DerivedNonNegative ==
    (Derived /\ complexCalculation.targetBlockNumber >= Modulus) =>
        complexCalculation.randomBlockNumber >= 0

\* C10: the complex derivation never yields a negative block number when the
\* target block is at least the modulus, and whenever target - offset would be
\* negative it fails with an error instead of requesting that block from the
\* chain.
C10_NoNegativeBlock ==
    /\ C10_DerivedNonNegative
    /\ \A b \in requestedBlocks : b >= 0

\* the moduli the complex mode is documented with
Moduli == {100, 256}

\* the value of the seed byte of the complex calculation carried through, and
\* the offset that was subtracted from the target block
SeedByteValue == parseInt16(complexCalculation.byteHex)
OffsetUsed ==
    complexCalculation.targetBlockNumber - complexCalculation.randomBlockNumber

\* C11 for fetchTargetBlockHash alone: the offset is byteValue mod 256
C11_FetchTargetPart ==
    (page = PageFetchTarget /\ Derived) =>
        /\ OffsetUsed = SeedByteValue % 256
        /\ OffsetUsed \in 0..255

\* C11: in complex mode the offset subtracted from the target block equals
\* byteValue mod modulus (modulus 100 or 256), byteValue in 0..255 being the
\* selected seed-hash byte, so the offset lies in [0, modulus - 1].
C11_OffsetIsByteModModulus ==
    Derived =>
        /\ SeedByteValue \in 0..255
        /\ \E modulus \in Moduli :
              /\ OffsetUsed = SeedByteValue % modulus
              /\ OffsetUsed \in 0..(modulus - 1)

\* the positions of a step in the pipeline of the last verification
StepsAt(step) == {k \in 1..Len(pipeline) : pipeline[k] = step}

\* C12, second half: one verification derives an offset at most once and
\* matches at most twice
C12_AtMostOnce ==
    /\ Cardinality(StepsAt("DERIVE_OFFSET")) <= 1
    /\ Cardinality(StepsAt("REFETCH")) <= 1
    /\ Cardinality(StepsAt("MATCH")) <= 2

\* C12: in a complex-mode verification the offset derivation and the refetch
\* of the derived block happen only after a first match attempt against the
\* target block's own hash produced no acceptable match, and the pipeline is
\* repeated at most once per verification.
C12_DeriveAfterFirstMatch ==
    /\ \A k \in StepsAt("DERIVE_OFFSET") \cup StepsAt("REFETCH") :
          \E j \in StepsAt("MATCH") : j < k
    /\ C12_AtMostOnce

(***************************************************************************)
(* Claims about the VerifyOnChain pages, under SpecOnChain.                *)
(***************************************************************************)
\* the verifyBlockGuess calls (estimated or sent) of the last verification
VerifyCalls ==
    {contractCalls[k] : k \in {j \in 1..Len(contractCalls) :
                                  contractCalls[j].method \in {"estimateGas", "send"}}}

\* the actual hash of the page without white space around it and without 0x
BareActualHash == removePrefix(trim(actualHash))

\* the hash of a call is the page's actual hash, 64 digits long, behind 0x
HashForwardedAsIs(call) ==
    /\ Len(BareActualHash) = FormattedLen - 2
    /\ call.actualHash = Prefix0x \o BareActualHash

\* C13 for kHPk.tsx alone
C13_KHPkPart ==
    onChainPage = PageKHPk => \A call \in VerifyCalls : HashForwardedAsIs(call)

\* C13: before verifyBlockGuess is estimated or sent the actual hash must be
\* exactly 64 hex characters after removing an optional 0x; a shorter or
\* longer hash makes the verification fail with an error and is never padded,
\* truncated or forwarded to the contract.
C13_HashExactly64 ==
    /\ \A call \in VerifyCalls : HashForwardedAsIs(call)
    /\ lastSent.sent => Len(BareActualHash) = FormattedLen - 2

\* the getGuessEntry answers of the last verification
GuessEntryAnswers ==
    {contractCalls[k].entry : k \in {j \in 1..Len(contractCalls) :
                                        contractCalls[j].method = "getGuessEntry"}}

\* the contract answered that the guess is verified already
AnsweredVerified ==
    \E entry \in GuessEntryAnswers : entry.error = "" /\ entry.targetVerified # 0

\* C15 for part_003 alone
C15_Part003Part ==
    (onChainPage = PagePart003 /\ AnsweredVerified)
        => /\ VerifyCalls = {}
           /\ verificationStatus = "failed"

\* C15: when getGuessEntry returns targetVerified other than 0, verifyOnChain
\* aborts with an 'already verified' error: no gas estimation is made and no
\* transaction is sent.
C15_AlreadyVerifiedAborts ==
    AnsweredVerified
        => /\ VerifyCalls = {}
           /\ verificationStatus # "success"

\* two transactions sent one after the other with different selections
SentWithOtherSelection ==
    /\ lastSent.sent
    /\ lastSent'.sent
    /\ Range(lastSent'.selectedMatches) # Range(lastSent.selectedMatches)

\* C19: the encyData array passed to verifyBlockGuess is determined by
\* selectedMatches: two different non-empty selections over the same matched
\* tokens send different match data.
C19_SelectionDeterminesData ==
    [][SentWithOtherSelection => lastSent'.encyData # lastSent.encyData]_vars

\* C19, the part that holds: nothing is sent with an empty selection
C19_NonEmptySelection ==
    lastSent.sent => lastSent.selectedMatches # <<>>

(***************************************************************************)
(* Claims about the GuessPage and the stored guesses, under SpecGuess.     *)
(***************************************************************************)
\* the submitBlockGuess calls of the last handleSubmit
SubmitBlockGuessCalls ==
    {submitCalls[k] : k \in {j \in 1..Len(submitCalls) :
                                submitCalls[j].method = "submitBlockGuess"}}

\* the token size of the form and of every guess sent is in [3,64]
TokenSizeInRange ==
    /\ tokenSize \in 3..64
    /\ \A call \in SubmitBlockGuessCalls : call.tokenSize \in 3..64

\* a token size outside [3,64] has just been asked for
OutOfRangeRequested ==
    /\ requestedTokenSize' # requestedTokenSize
    /\ requestedTokenSize' \notin 3..64

StoredByGuessPage ==
    findGuess(localStorage[guessPageStorageKey(registeredWallet, "allGuessSubmissions")],
              guessId) # NoStoredGuess

\* storage holds no legacy, un-scoped data
NoLegacyData ==
    /\ localStorage[<<"allGuessSubmissions">>] = <<>>
    /\ localStorage[<<"lastGuessSubmission">>] = <<>>

\* C17: after GuessPage's receipt handler stored a guess for wallet W and id
\* G, getStoredGuessData and readSingleGuess, run with the same wallet and id
\* and with no legacy data in storage, return that guess.
C17_StoredGuessFound ==
    [][(lookup' # lookup /\ StoredByGuessPage /\ NoLegacyData) => lookup'.found]_vars

\* C17, the part that holds: the two lookups read the same keys, so they find
\* a guess or miss it together
C17_LookupsAgree ==
    readSingleGuess(localStorage, registeredWallet, guessId).found
        <=> (getStoredGuessData(localStorage, registeredWallet, guessId) # NoStoredGuess)

\* the approve transaction of the last handleSubmit failed or was rejected
ApproveFailed ==
    \E k \in 1..Len(submitCalls) :
        submitCalls[k].method = "approve" /\ submitCalls[k].result # "receipt ok"

\* C20: for a paid guess whose allowance is below 25 tokens, if the approve
\* transaction fails or is rejected, handleSubmit aborts with the
\* token-approval failure message and submitBlockGuess is not sent.
C20_ApproveFailureAborts ==
    ApproveFailed
        => /\ SubmitBlockGuessCalls = {}
           /\ confirmModal.message =
                 "Token approval transaction failed. Please approve manually and retry."

\* C20, the part that holds: an insufficient balance aborts handleSubmit
C20_BalancePart ==
    confirmModal.message = InsufficientBalance.message => SubmitBlockGuessCalls = {}

(***************************************************************************)
(* Claims about the way to the on-chain page, under SpecProceed.           *)
(***************************************************************************)
\* C16, the part that holds: no transaction is sent on match data whose
\* matchResult is not true
C16_MatchResultTrue ==
    lastSent.sent => lastSent.matchData.matchResult

\* C16: a verifyBlockGuess transaction for guess id G is sent by
\* handleVerifyOnChain only after an off-chain verification of the same guess
\* G succeeded: the match data it loads has matchResult true and belongs to
\* guess id G.
C16_SameGuessVerified ==
    lastSent.sent
        => /\ lastSent.matchData.matchResult
           /\ lastSent.matchData.guessId = lastSent.guessId
           /\ lastSent.guessId \in verifiedOffChain

(***************************************************************************)
(* Claims about the load effect, under SpecLoad.                           *)
(***************************************************************************)
\* a wallet is connected and its allGuessSubmissions holds the guess of the
\* route
GuessOfRouteStored ==
    /\ connectedAccount # ""
    /\ currentGuessOf(allGuessesOf(localStorage, connectedAccount), guessId) # <<>>

\* C18: in the variant with handleFetchAndVerify, when a wallet is connected
\* and its allGuessSubmissions list holds a guess with the route's guess id,
\* the load effect completes without raising an error and sets
\* storedGuessData, tokenSize and targetBlockCount from that guess, so that
\* Fetch & Verify gets past the missing-target-block check.
C18_LoadCompletes ==
    (loadOutcome.ran /\ GuessOfRouteStored)
        => /\ loadOutcome.error = ""
           /\ storedGuessData # NoGuess
           /\ targetBlockCount # 0
           /\ alertMessage.message # "Missing Information"

\* the legacy keys, and the keys of the wallet
LegacyKeys == {<<"allGuessSubmissions">>, <<"lastGuessSubmission">>}
WalletKeys(walletAddress) ==
    {guessPageStorageKey(walletAddress, key) : key \in BaseKeys}

\* the migration from one storage to another keeps the legacy keys and every
\* wallet-scoped item, does nothing once the wallet's list of guesses
\* exists, and does nothing more when it is run again
LosesNoData(before, after, again, walletAddress) ==
    /\ \A key \in LegacyKeys : after[key] = before[key]
    /\ \A key \in WalletKeys(walletAddress) :
          before[key] # <<>> => after[key] = before[key]
    /\ before[guessPageStorageKey(walletAddress, "allGuessSubmissions")] # <<>>
          => after = before
    /\ again = after

\* C24: migrateOldDataToWalletSpecific loses no data: it never modifies or
\* removes the legacy keys allGuessSubmissions and lastGuessSubmission, and it
\* never overwrites wallet-scoped guess data written by a submission; when the
\* wallet's allGuessSubmissions key already holds data the call leaves
\* localStorage unchanged, so running it twice has the same effect as running
\* it once.
C24_MigrationLosesNoData ==
    LET once == migrateOldDataToWalletSpecific(localStorage, registeredWallet)
        twice == migrateOldDataToWalletSpecific(once, registeredWallet)
        oncePart001 == migrateOldDataPart001(localStorage, registeredWallet)
        twicePart001 == migrateOldDataPart001(oncePart001, registeredWallet)
    IN  /\ LosesNoData(localStorage, once, twice, registeredWallet)
        /\ LosesNoData(localStorage, oncePart001, twicePart001, registeredWallet)

\* legacy guesses were migrated to the wallet, a guess was then submitted and
\* stored with them, and the legacy list is still there
C24_Witness ==
    /\ localStorage[<<"allGuessSubmissions">>] = <<ExportableGuessData(1, 3)>>
    /\ Len(localStorage[guessPageStorageKey(registeredWallet, "allGuessSubmissions")]) = 2
    /\ localStorage[<<"lastGuessSubmission">>] = <<ExportableGuessData(1, 3)>>
    /\ localStorage[guessPageStorageKey(registeredWallet, "lastGuessSubmission")]
          = <<ExportableGuessData(2, tokenSize)>>
    /\ guessId = 2
    /\ StoredByGuessPage

(***************************************************************************)
(* Claims about the validation of the GuessPage form, under SpecSubmit.    *)
(***************************************************************************)
\* the form is one the claim allows to be submitted
FormAccepted ==
    /\ overwrite
    /\ blockIncrement \in 10..2048
    /\ tokenSize \in 3..64
    /\ formActualHash \notin {"", ZERO_HASH}
    /\ formSecretHash \notin {"", ZERO_HASH}
    /\ dummyHash \notin {"", ZERO_HASH}

\* every guess sent by the last handleSubmit carries an accepted form
SentFormAccepted ==
    \A call \in SubmitBlockGuessCalls :
        /\ call.overwrite
        /\ call.blockIncrement \in 10..2048
        /\ call.tokenSize \in 3..64
        /\ call.dummyHash \notin {"", ZERO_HASH}

\* C21: handleSubmit sends submitBlockGuess and writes the guess to
\* localStorage and Firebase only if validateForm returned no errors, in
\* particular only when overwrite is enabled, blockIncrement is in [10,2048],
\* tokenSize is in [3,64] and none of the actual, secret and dummy hashes is
\* empty or the all-zero hash; otherwise it only shows the validation errors,
\* performs no contract call and no storage write, and resets isSubmitting to
\* false.
C21_SubmitOnlyIfValid ==
    /\ []SentFormAccepted
    /\ [][(HandleSubmit /\ (submitCalls' # <<>> \/ localStorage' # localStorage))
              => (validateForm = {} /\ FormAccepted)]_vars
    /\ [][(HandleSubmit /\ ~(validateForm = {} /\ FormAccepted))
              => /\ submitCalls' = <<>>
                 /\ localStorage' = localStorage
                 /\ confirmModal'.title = "Validation Errors"
                 /\ isSubmitting' = FALSE]_vars

\* a form with the greatest block increment was submitted, and its guess was
\* sent, stored for the wallet and written to Firebase
C21_Witness ==
    /\ FormAccepted
    /\ blockIncrement = 2048
    /\ \E call \in SubmitBlockGuessCalls :
          call.result = "receipt ok" /\ call.blockIncrement = 2048
    /\ FirebaseSet \in Range(submitCalls)
    /\ StoredByGuessPage
    /\ confirmModal.title = "Success!"

(***************************************************************************)
(* Claims about the payment modal, under SpecPayment.                      *)
(***************************************************************************)
\* the booking requests that came from Pay clicks of one opening of the modal
RequestsOfOpening(opening) ==
    {k \in 1..Len(bookingRequests) : bookingRequests[k].opening = opening}

\* the booking requests that came from one Pay click
RequestsOfClick(click) ==
    {k \in 1..Len(bookingRequests) : bookingRequests[k].click = click}

\* C22, the part that holds: a Pay click leads to at most one booking request
C22_OnePerPayClick ==
    \A click \in 1..payClicks : Cardinality(RequestsOfClick(click)) <= 1

\* C22: each opening of the payment modal leads to at most one
\* booking-creation request (POST /api/bookings/create), whatever the
\* interleaving of Pay clicks, the 1.5 s processing timer and the 2.5 s
\* success timer.
C22_OneRequestPerOpening ==
    \A opening \in 1..modalOpenings : Cardinality(RequestsOfOpening(opening)) <= 1

\* C23, the part that holds: a booking request comes from a Pay click
C23_RequestsComeFromPay ==
    \A k \in 1..Len(bookingRequests) :
        /\ bookingRequests[k].click \in 1..payClicks
        /\ bookingRequests[k].opening \in 1..modalOpenings

\* C23: if the user closes the payment modal (overlay click or X button)
\* before the simulated payment has completed, onPaymentSuccess is not
\* invoked afterwards and no booking-creation request is sent for that
\* attempt.
C23_ClosedBeforeCompletion ==
    \A k \in 1..Len(bookingRequests) : bookingRequests[k].click \notin closedEarly

(***************************************************************************)
(* Claims about the selection of matches, under SpecOnChain.               *)
(***************************************************************************)
\* a selection of at most 2 of the matched tokens, none of them twice
SelectionOfMatches(selection) ==
    /\ Len(selection) <= 2
    /\ NoRepeat(selection)
    /\ Range(selection) \subseteq Range(matchedTokens)

\* C25: after any sequence of handleMatchSelection toggles, starting from the
\* default selection of the first two matches, selectedMatches holds at most
\* 2 tokens, holds no token twice and is a subset of matchedTokens; toggling
\* a selected token removes it, and selecting a third token leaves the
\* selection unchanged.
C25_SelectionAtMostTwo ==
    /\ SelectionOfMatches(selectedMatches)
    /\ \A token \in Range(matchedTokens) :
          LET toggled == handleMatchSelection(selectedMatches, token)
          IN  /\ SelectionOfMatches(toggled)
              /\ token \in Range(selectedMatches)
                    => /\ Range(toggled) = Range(selectedMatches) \ {token}
                       /\ Len(toggled) = Len(selectedMatches) - 1
              /\ (token \notin Range(selectedMatches) /\ Len(selectedMatches) = 2)
                    => toggled = selectedMatches

\* a third token was refused, the first match was then taken out of the
\* default selection and the third put in
C25_Witness ==
    /\ matchedTokens = MatchedTokens
    /\ selectedMatches = <<MatchedTokens[2], MatchedTokens[3]>>
    /\ alertMessage.message = "Maximum Selection"
====
